---- MODULE Spec2Model ----
(***************************************************************************)
(* A model of the ISMS schema-first document generator:                    *)
(*   - the v2 document model and its validators (isms_core_v2/models.py),  *)
(*   - the v2 renderer and Word importer,                                  *)
(*   - the v1 dynamic table reconciler (isms_core/dynamic_tables.py),      *)
(*   - the v1 archive property patcher (isms_core/docx_props.py).          *)
(*                                                                         *)
(* Conventions.  A Python str that the code inspects character by          *)
(* character (titles, paragraph text, cell text, doc_id) is a sequence of  *)
(* one-character strings; section keys, kinds and other atoms are strings. *)
(* An optional / union value is a record [t, v]: t is the Python type      *)
(* ("None", "str", "list", "dict", "other") and v a sequence holding the   *)
(* value.                                                                  *)
(***************************************************************************)
EXTENDS Integers, Sequences, FiniteSets, TLC

VARIABLES
    \* --- document model (models.py): the most recent constructor call
    op,         \* "none" | "ContentBlock" | "Section" | "DocumentModel"
    arg,        \* the payload handed to the constructor
    ok,         \* TRUE iff construction succeeded (the object equals arg)
    errors,     \* the validation errors of the call, in field order
    \* --- v2 generation and import (word_renderer.py, word_importer.py, cli.py)
    ipc,            \* "off" | "model" | "package" | "import" | "imported" | "validated"
    model,          \* the DocumentModel handed to render_document
    generated,      \* TRUE iff the package body was written by render_document
    catalog,        \* the style names the template defines
    core,           \* the package's core properties
    body,           \* the package body: paragraph and table nodes in document order
    item,           \* the importer's position in the body
    secs,           \* the section dicts the importer has created; secs[1] is root_section
    section_stack,  \* the importer's stack of <<level, index into secs>>
    doc_dict,       \* the dictionary import_word_to_json returns
    verrors         \* the errors of DocumentModel.model_validate(doc_dict)

modelVars == <<op, arg, ok, errors>>

importVars == <<ipc, model, generated, catalog, core, body, item, secs, section_stack,
                doc_dict, verrors>>

\* dynamic_tables.py: the document body, the spec applied to it, the number of
\* applications so far and what the last one did
VARIABLES doc, spec, calls, outcome

tablesVars == <<doc, spec, calls, outcome>>

\* docx_props.py: the files at the package's path and next to it, the
\* metadata passed, the number of runs of each entry point and what the last
\* one did
VARIABLES fs, meta, runs, writes, last

propsVars == <<fs, meta, runs, writes, last>>

\* docx_props.py, step by step: one patch run, from reading the package to
\* the return or the exception
VARIABLES run

swapVars == <<run>>

\* a helper function applied on its own: its name, arguments and result
VARIABLES call
VARIABLES gen

callVars == <<call>>
genVars == <<gen>>

vars == <<modelVars, importVars, tablesVars, propsVars, swapVars, callVars, genVars>>

(***************************************************************************)
(* Generic helpers                                                         *)
(***************************************************************************)
Max2(a, b) == IF a >= b THEN a ELSE b

SetMax(S) == CHOOSE x \in S : \A y \in S : y <= x

SetMin(S) == CHOOSE x \in S : \A y \in S : x <= y

Range(s) == {s[i] : i \in DOMAIN s}

\* All sequences over S of length 0..n
RECURSIVE SeqsUpTo(_, _)
SeqsUpTo(S, n) ==
    IF n = 0 THEN {<<>>}
    ELSE LET shorter == SeqsUpTo(S, n - 1)
         IN shorter \cup {Append(s, x) : s \in {t \in shorter : Len(t) = n - 1}, x \in S}

PyNone == [t |-> "None", v |-> <<>>]
PyStr(s) == [t |-> "str", v |-> <<s>>]
PyList(l) == [t |-> "list", v |-> l]

(***************************************************************************)
(* Python str operations on character sequences                            *)
(***************************************************************************)
Whitespace == {" ", "\n"}

UPPER == <<"A", "B", "C", "D", "E", "F", "G", "H", "I", "J", "K", "L", "M",
          "N", "O", "P", "Q", "R", "S", "T", "U", "V", "W", "X", "Y", "Z">>
LOWER == <<"a", "b", "c", "d", "e", "f", "g", "h", "i", "j", "k", "l", "m",
          "n", "o", "p", "q", "r", "s", "t", "u", "v", "w", "x", "y", "z">>

UpperToLower ==
    [c \in Range(UPPER) |-> LOWER[CHOOSE i \in DOMAIN UPPER : UPPER[i] = c]]

Digits == {"0", "1", "2", "3", "4", "5", "6", "7", "8", "9"}

\* the characters [a-zA-Z0-9]
Alnum == Digits \cup Range(UPPER) \cup Range(LOWER)

LowerChar(c) == IF c \in DOMAIN UpperToLower THEN UpperToLower[c] ELSE c

\* str.lower()
Lower(s) == [i \in DOMAIN s |-> LowerChar(s[i])]

RECURSIVE LStrip(_, _)
LStrip(s, drop) == IF s # <<>> /\ Head(s) \in drop THEN LStrip(Tail(s), drop) ELSE s

RECURSIVE RStrip(_, _)
RStrip(s, drop) ==
    IF s # <<>> /\ s[Len(s)] \in drop THEN RStrip(SubSeq(s, 1, Len(s) - 1), drop) ELSE s

\* str.strip()
Strip(s) == RStrip(LStrip(s, Whitespace), Whitespace)

\* str.splitlines() (line breaks are "\n")
RECURSIVE SplitLinesFrom(_, _)
SplitLinesFrom(s, line) ==
    IF s = <<>> THEN (IF line = <<>> THEN <<>> ELSE <<line>>)
    ELSE IF Head(s) = "\n" THEN <<line>> \o SplitLinesFrom(Tail(s), <<>>)
    ELSE SplitLinesFrom(Tail(s), Append(line, Head(s)))

SplitLines(s) == SplitLinesFrom(s, <<>>)

\* sep.join(parts)
RECURSIVE Join(_, _)
Join(sep, parts) ==
    IF parts = <<>> THEN <<>>
    ELSE IF Len(parts) = 1 THEN parts[1]
    ELSE parts[1] \o sep \o Join(sep, Tail(parts))

\* the characters of a str as one atom
RECURSIVE Str(_)
Str(s) == IF s = <<>> THEN "" ELSE Head(s) \o Str(Tail(s))

(***************************************************************************)
(* models.py : errors                                                      *)
(***************************************************************************)
\* One pydantic error: the field it is located at, the message, and the
\* values the message interpolates (a section title, a list of keys).
Err(loc, msg, title, keys) == [loc |-> loc, msg |-> msg, title |-> title, keys |-> keys]

(***************************************************************************)
(* models.py : ContentBlock                                                *)
(***************************************************************************)
KINDS == {"paragraph", "bullet_list", "numbered_list", "table"}

\* values.get("kind"): present only when the Literal check on kind passed
ValuesKind(b) == IF b.kind \in KINDS THEN b.kind ELSE "None"

validate_text_for_non_table(b) ==
    IF ValuesKind(b) \in {"paragraph", "bullet_list", "numbered_list"} /\ b.text.t = "None"
    THEN <<Err("text", "'text' is required", <<>>, <<>>)>>
    ELSE <<>>

validate_rows_for_table_Mutant(b) ==
    IF ValuesKind(b) = "table" /\ b.rows.t = "None"
    THEN <<Err("rows", "'rows' is required and must be non-empty", <<>>, <<>>)>>
    ELSE <<>>

validate_rows_for_table(b) ==
    IF ValuesKind(b) = "table" /\ (b.rows.t = "None" \/ Len(b.rows.v) = 0)
    THEN <<Err("rows", "'rows' is required and must be non-empty", <<>>, <<>>)>>
    ELSE <<>>

\* ContentBlock(**b): the errors of every field, in declaration order
ContentBlock(b) ==
    (IF b.kind \in KINDS THEN <<>> ELSE <<Err("kind", "unexpected value", <<>>, <<>>)>>)
    \o validate_text_for_non_table(b)
    \o validate_rows_for_table(b)

(***************************************************************************)
(* models.py : Section                                                     *)
(***************************************************************************)
MIN_LEVEL == 1
MAX_LEVEL == 4

level_must_be_between_1_and_4(v) ==
    IF v < MIN_LEVEL \/ v > MAX_LEVEL
    THEN <<Err("level", "Section.level must be between 1 and 4", <<>>, <<>>)>>
    ELSE <<>>

enforce_subsection_levels_Mutant(subs, level) ==
    LET bad == {i \in DOMAIN subs : subs[i].level < level + 1}
    IN IF bad = {} THEN <<>>
       ELSE <<Err("subsections", "Subsection must have level parent+1",
                  subs[SetMin(bad)].title, <<>>)>>

\* raises for the first subsection whose level is not level + 1
enforce_subsection_levels(subs, level) ==
    LET bad == {i \in DOMAIN subs : subs[i].level # level + 1}
    IN IF bad = {} THEN <<>>
       ELSE <<Err("subsections", "Subsection must have level parent+1",
                  subs[SetMin(bad)].title, <<>>)>>

RECURSIVE Flatten(_)
Flatten(ss) == IF ss = <<>> THEN <<>> ELSE Head(ss) \o Flatten(Tail(ss))

\* Section(**p): the children are validated first (a failing child fails the
\* field and the subsections validator is then not run); the subsections
\* validator reads values.get("level", 1), which is 1 when level failed.
RECURSIVE Section(_)
Section(p) ==
    LET levelErrs == level_must_be_between_1_and_4(p.level)
        valuesLevel == IF levelErrs = <<>> THEN p.level ELSE 1
        contentErrs == Flatten([i \in DOMAIN p.content |-> ContentBlock(p.content[i])])
        childErrs == Flatten([i \in DOMAIN p.subsections |-> Section(p.subsections[i])])
        subErrs == IF childErrs # <<>> THEN childErrs
                   ELSE enforce_subsection_levels(p.subsections, valuesLevel)
    IN levelErrs \o contentErrs \o subErrs

(***************************************************************************)
(* models.py : DocMetadata                                                 *)
(***************************************************************************)
DOC_TYPES == {"Record", "Policy", "Procedure"}
STATUSES == {"Draft", "For Review", "Approved"}

doc_id_format(v) ==
    IF Len(Strip(v)) = 0 THEN <<Err("doc_id", "doc_id cannot be empty", <<>>, <<>>)>> ELSE <<>>

DocMetadata(m) ==
    doc_id_format(m.doc_id)
    \o (IF m.doc_type \in DOC_TYPES THEN <<>> ELSE <<Err("doc_type", "unexpected value", <<>>, <<>>)>>)
    \o (IF m.status \in STATUSES THEN <<>> ELSE <<Err("status", "unexpected value", <<>>, <<>>)>>)

(***************************************************************************)
(* models.py : DocumentModel                                               *)
(***************************************************************************)
MANDATORY_KEYS ==
    {"title_page", "document_control", "table_of_contents", "revision_history",
     "approval_signatures", "document_classification", "purpose", "scope",
     "roles_and_responsibilities", "related_documents"}

CLASSIFICATION_SUBKEYS == {"distribution_list", "handling_requirements", "retention_period"}

\* The keys the validator may have to sort, in Python's str order.
KEY_ORDER ==
    <<"approval_signatures", "distribution_list", "document_classification",
      "document_control", "handling_requirements", "purpose", "related_documents",
      "retention_period", "revision_history", "roles_and_responsibilities", "scope",
      "table_of_contents", "title_page">>

\* sorted(S) for a set of keys
sorted_Mutant(S) ==
    LET s == SelectSeq(KEY_ORDER, LAMBDA k : k \in S) IN IF s = <<>> THEN s ELSE <<s[1]>>

sorted(S) == SelectSeq(KEY_ORDER, LAMBDA k : k \in S)

validate_mandatory_sections_Mutant(sections) ==
    LET keys == {sections[i].key : i \in DOMAIN sections}
        missing == MANDATORY_KEYS \ keys
    IN IF missing # {}
       THEN <<Err("sections", "Missing mandatory sections", <<>>, sorted(missing))>>
       ELSE <<>>

validate_mandatory_sections(sections) ==
    LET keys == {sections[i].key : i \in DOMAIN sections}
        missing == MANDATORY_KEYS \ keys
        found == {i \in DOMAIN sections : sections[i].key = "document_classification"}
    IN IF missing # {}
       THEN <<Err("sections", "Missing mandatory sections", <<>>, sorted(missing))>>
       ELSE IF found = {}
       THEN <<Err("sections", "document_classification section missing", <<>>, <<>>)>>
       ELSE LET classification == sections[SetMin(found)]
                subkeys == {classification.subsections[j].key :
                                j \in DOMAIN classification.subsections}
                missing_sub == CLASSIFICATION_SUBKEYS \ subkeys
            IN IF missing_sub # {}
               THEN <<Err("sections", "document_classification missing subsections",
                          <<>>, sorted(missing_sub))>>
               ELSE <<>>

\* DocumentModel(**d): metadata, then every section, then (only when every
\* section validated) the mandatory-section validator.
DocumentModel(d) ==
    LET metaErrs == DocMetadata(d.metadata)
        secErrs == Flatten([i \in DOMAIN d.sections |-> Section(d.sections[i])])
    IN metaErrs \o (IF secErrs # <<>> THEN secErrs ELSE validate_mandatory_sections(d.sections))

(***************************************************************************)
(* Constructor calls of the document model.  One behaviour is one          *)
(* construction: a ContentBlock, a DocumentModel, or a Section built       *)
(* bottom-up, each new Section possibly taking the Section constructed     *)
(* before it as a subsection.                                              *)
(***************************************************************************)
MaxSubs == 2          \* subsections per constructed Section
NumExtraKeys == 1     \* non-mandatory top-level keys offered to DocumentModel

CellA == <<"a">>
CellB == <<"B", " ">>

BlockKindsTried == KINDS \cup {"image"}
BlockTextsTried == {PyNone, PyStr(<<>>), PyStr(<<"a">>), PyList(<<>>), PyList(<<CellA, CellB>>)}
BlockHeadersTried == {PyNone, PyList(<<CellA>>)}
BlockRowsTried == {PyNone, PyList(<<>>), PyList(<<<<CellA>>>>), PyList(<<<<CellA, CellB>>, <<>>>>)}

BlockPayload(kind, text, header, rows) ==
    [kind |-> kind, text |-> text, header |-> header, rows |-> rows]

SectionPayload(key, title, level, content, subsections) ==
    [key |-> key, title |-> title, level |-> level, content |-> content,
     subsections |-> subsections]

GoodParagraph == BlockPayload("paragraph", PyStr(<<"a">>), PyNone, PyNone)
EmptyTable == BlockPayload("table", PyNone, PyList(<<CellA>>), PyList(<<>>))

LevelsTried == (MIN_LEVEL - 1) .. (MAX_LEVEL + 1)

SubTitles == <<<<"A">>, <<"B">>, <<"S">>, <<"a", "b">>>>

\* a fresh leaf payload offered as the i-th subsection
Leaf(i, level) == SectionPayload(Str(Lower(SubTitles[i])), SubTitles[i], level, <<>>, <<>>)

\* the Section object the previous call constructed, if any
LastSection == IF op = "Section" /\ ok THEN {arg} ELSE {}

\* the subsection lists tried: the previously constructed Section may be
\* reused as the first subsection, every other subsection is a fresh leaf
RECURSIVE SubsTried(_)
SubsTried(n) ==
    IF n = 0 THEN {<<>>}
    ELSE IF n = 1 THEN {<<s>> : s \in LastSection \cup {Leaf(1, l) : l \in LevelsTried}}
    ELSE {Append(ss, Leaf(n, l)) : ss \in SubsTried(n - 1), l \in LevelsTried}

NewContentBlock ==
    /\ op = "none"
    /\ \E kind \in BlockKindsTried, text \in BlockTextsTried,
       header \in BlockHeadersTried, rows \in BlockRowsTried :
        LET b == BlockPayload(kind, text, header, rows)
        IN /\ op' = "ContentBlock"
           /\ arg' = b
           /\ errors' = ContentBlock(b)
           /\ ok' = (ContentBlock(b) = <<>>)

NewSection ==
    /\ op = "none" \/ (op = "Section" /\ ok)
    /\ \E level \in LevelsTried, n \in 0 .. MaxSubs, content \in {<<>>, <<GoodParagraph, EmptyTable>>} :
        \E subs \in SubsTried(n) :
            LET p == SectionPayload("sec", <<"P">>, level, content, subs)
            IN /\ op' = "Section"
               /\ arg' = p
               /\ errors' = Section(p)
               /\ ok' = (Section(p) = <<>>)

EXTRA_KEYS == <<"record_content", "appendix", "annex">>

TopKeysTried == MANDATORY_KEYS \cup {EXTRA_KEYS[i] : i \in 1 .. NumExtraKeys}

\* top-level sections are offered in the importer's order of the mandatory
\* keys, the extra keys last
TOP_KEY_ORDER ==
    <<"title_page", "document_control", "table_of_contents", "revision_history",
      "approval_signatures", "document_classification", "purpose", "scope",
      "roles_and_responsibilities", "related_documents">> \o EXTRA_KEYS

SubKeysTried == CLASSIFICATION_SUBKEYS \cup {"other"}
SUB_KEY_ORDER == <<"distribution_list", "handling_requirements", "retention_period", "other">>

KeyedSections(order, keys, level, subsOf(_)) ==
    LET chosen == SelectSeq(order, LAMBDA k : k \in keys)
    IN [i \in DOMAIN chosen |-> SectionPayload(chosen[i], <<"S">>, level, <<>>, subsOf(chosen[i]))]

NoSubs(k) == <<>>

\* the sections payload: the chosen keys, the chosen subsections under
\* document_classification, and optionally a second, empty
\* document_classification section before or after the others
SectionsTried(present, subkeys, dup) ==
    LET classSubs(k) == IF k = "document_classification"
                        THEN KeyedSections(SUB_KEY_ORDER, subkeys, 2, NoSubs)
                        ELSE <<>>
        main == KeyedSections(TOP_KEY_ORDER, present, 1, classSubs)
        extra == <<SectionPayload("document_classification", <<"S">>, 1, <<>>, <<>>)>>
    IN CASE dup = "none" -> main
         [] dup = "before" -> extra \o main
         [] dup = "after" -> main \o extra

SampleMetadata(doc_id) ==
    [doc_id |-> doc_id, title |-> <<"T">>, doc_type |-> "Record", version |-> "1.0",
     status |-> "Approved", owner |-> "CTO", approver |-> "CEO",
     related_documents |-> <<>>]

NewDocumentModel ==
    /\ op = "none"
    /\ \E present \in SUBSET TopKeysTried, subkeys \in SUBSET SubKeysTried,
       dup \in {"none", "before", "after"}, doc_id \in {<<"a">>, <<" ">>} :
        /\ "document_classification" \notin present => (subkeys = {} /\ dup = "none")
        /\ doc_id = <<" ">> => dup = "none"
        /\ LET d == [metadata |-> SampleMetadata(doc_id),
                     sections |-> SectionsTried(present, subkeys, dup)]
           IN /\ op' = "DocumentModel"
              /\ arg' = d
              /\ errors' = DocumentModel(d)
              /\ ok' = (DocumentModel(d) = <<>>)

ModelIdle ==
    /\ op = "none"
    /\ arg = <<>>
    /\ ok = FALSE
    /\ errors = <<>>

ModelNext ==
    \/ NewContentBlock /\ UNCHANGED <<importVars, tablesVars, propsVars, swapVars, callVars, genVars>>
    \/ NewSection /\ UNCHANGED <<importVars, tablesVars, propsVars, swapVars, callVars, genVars>>
    \/ NewDocumentModel /\ UNCHANGED <<importVars, tablesVars, propsVars, swapVars, callVars, genVars>>

(***************************************************************************)
(* Claims about the document model                                         *)
(***************************************************************************)
TopKeys(d) == {d.sections[i].key : i \in DOMAIN d.sections}

\* the direct subsection keys of the first section keyed document_classification
ClassificationSubkeys(d) ==
    LET found == {i \in DOMAIN d.sections : d.sections[i].key = "document_classification"}
        c == d.sections[SetMin(found)]
    IN IF found = {} THEN {} ELSE {c.subsections[j].key : j \in DOMAIN c.subsections}

\* strict one-level nesting with every level in 1..4, at every depth
RECURSIVE WellNested(_)
WellNested(p) ==
    /\ p.level \in 1 .. 4
    /\ \A i \in DOMAIN p.subsections :
        /\ p.subsections[i].level = p.level + 1
        /\ WellNested(p.subsections[i])

\* C1: a DocumentModel whose metadata and top-level sections are individually
\* valid is accepted if and only if its top-level keys include the ten
\* mandatory keys and the direct subsections of its (first)
\* document_classification section include distribution_list,
\* handling_requirements and retention_period; otherwise it is rejected.
C1_MandatoryAcceptIff ==
    (op = "DocumentModel" /\ DocMetadata(arg.metadata) = <<>>) =>
        (ok <=> /\ {"title_page", "document_control", "table_of_contents",
                    "revision_history", "approval_signatures", "document_classification",
                    "purpose", "scope", "roles_and_responsibilities",
                    "related_documents"} \subseteq TopKeys(arg)
                /\ {"distribution_list", "handling_requirements", "retention_period"}
                       \subseteq ClassificationSubkeys(arg))

\* scenario A: exactly the ten mandatory keys and the three subsections validate
C1_Witness ==
    /\ op = "DocumentModel"
    /\ ok
    /\ Len(arg.sections) = 10
    /\ Cardinality(TopKeys(arg)) = 10
    /\ ClassificationSubkeys(arg) = {"distribution_list", "handling_requirements", "retention_period"}

\* C2: when a non-empty set M of mandatory top-level keys is absent, validation
\* fails and the "Missing mandatory sections" error lists exactly the keys of
\* M, each once.
C2_MissingListedExactly ==
    op = "DocumentModel" =>
        LET M == MANDATORY_KEYS \ TopKeys(arg)
        IN M # {} =>
            /\ ~ok
            /\ \E i \in DOMAIN errors :
                /\ errors[i].msg = "Missing mandatory sections"
                /\ Range(errors[i].keys) = M
                /\ Len(errors[i].keys) = Cardinality(M)

\* scenario B: complete except for scope, the error lists exactly scope
C2_Witness ==
    /\ op = "DocumentModel"
    /\ MANDATORY_KEYS \ TopKeys(arg) = {"scope"}
    /\ ~ok
    /\ Len(errors) = 1
    /\ errors[1].keys = <<"scope">>

C4_BlockShape ==
    op = "ContentBlock" =>
        /\ (arg.kind = "table" /\ (arg.rows.t = "None" \/ Len(arg.rows.v) = 0)) => ~ok
        /\ (ok /\ arg.kind = "table") => (arg.rows.t = "list" /\ Len(arg.rows.v) >= 1)
        /\ (ok /\ arg.kind \in {"paragraph", "bullet_list", "numbered_list"}) => arg.text.t # "None"

\* a table block given an empty rows list is rejected
C4_Witness ==
    /\ op = "ContentBlock"
    /\ arg.kind = "table"
    /\ arg.rows.t = "list"
    /\ Len(arg.rows.v) = 0
    /\ ~ok

(***************************************************************************)
(* The package body shared by the v2 renderer and importer: an ordered     *)
(* list of paragraph and table nodes.  A table is a list of rows, a row a  *)
(* list of cells, a cell the list of the texts of its paragraphs.          *)
(***************************************************************************)
Paragraph(style, text, numFmt) ==
    [node |-> "p", style |-> style, text |-> text, numFmt |-> numFmt, rows |-> <<>>]

Table(rows) ==
    [node |-> "t", style |-> "Table", text |-> <<>>, numFmt |-> "none", rows |-> rows]

DigitOf(n) == <<"1", "2", "3", "4", "5", "6", "7", "8", "9">>[n]

\* the style a paragraph created by add_paragraph has before any is applied
DEFAULT_STYLE == "Normal"

(***************************************************************************)
(* word_renderer.py                                                        *)
(***************************************************************************)
HEADING_STYLE_MAP == [l \in 1 .. 4 |-> <<"ISMS Heading " \o DigitOf(l), "Heading " \o DigitOf(l)>>]

BODY_STYLE_CANDIDATES == <<"ISMS Body", "Normal">>
BULLET_STYLE_CANDIDATES == <<"ISMS List Bullet", "List Bullet", "List Paragraph", "Normal">>
NUMBERED_STYLE_CANDIDATES == <<"ISMS List Numbered", "List Number", "List Paragraph", "Normal">>

RESERVED_TEMPLATE_SECTIONS == {"title_page", "document_control", "table_of_contents"}

\* the style of the paragraph after trying each candidate in order
apply_first_existing_style_Mutant(style, candidates, styles) ==
    LET hits == {i \in DOMAIN candidates : candidates[i] \in styles}
    IN IF hits = {} THEN style ELSE candidates[SetMax(hits)]

apply_first_existing_style(style, candidates, styles) ==
    LET hits == {i \in DOMAIN candidates : candidates[i] \in styles}
    IN IF hits = {} THEN style ELSE candidates[SetMin(hits)]

\* cell.text = value: the cell keeps one paragraph holding the value
CellWith(value) == <<value>>

\* a cell of a freshly added table: one empty paragraph
EmptyCell == <<<<>>>>

render_table_block(block) ==
    LET header == IF block.header.t = "None" THEN <<>> ELSE block.header.v
        rows == IF block.rows.t = "None" THEN <<>> ELSE block.rows.v
        cols == SetMax({Len(header)} \cup {Len(rows[i]) : i \in DOMAIN rows})
        filled(r) == [c \in 1 .. cols |-> IF c <= Len(r) THEN CellWith(r[c]) ELSE EmptyCell]
        grid == (IF header # <<>> THEN <<filled(header)>> ELSE <<>>)
                \o [i \in DOMAIN rows |-> filled(rows[i])]
    IN IF cols = 0 THEN <<>> ELSE <<Table(grid)>>

\* the items a list block iterates over: the list, or the characters of a str
ListItems(text) ==
    CASE text.t = "list" -> text.v
      [] text.t = "str" -> [i \in DOMAIN text.v[1] |-> <<text.v[1][i]>>]
      [] OTHER -> <<>>

render_content_block(block, styles) ==
    CASE block.kind = "paragraph" ->
            LET lines == IF block.text.t = "str" THEN SplitLines(block.text.v[1]) ELSE <<>>
                kept == SelectSeq(lines, LAMBDA line : Strip(line) # <<>>)
            IN [i \in DOMAIN kept |->
                   Paragraph(apply_first_existing_style(DEFAULT_STYLE, BODY_STYLE_CANDIDATES, styles),
                             Strip(kept[i]), "none")]
      [] block.kind = "bullet_list" ->
            [i \in DOMAIN ListItems(block.text) |->
                Paragraph(apply_first_existing_style(DEFAULT_STYLE, BULLET_STYLE_CANDIDATES, styles),
                          ListItems(block.text)[i], "none")]
      [] block.kind = "numbered_list" ->
            [i \in DOMAIN ListItems(block.text) |->
                Paragraph(apply_first_existing_style(DEFAULT_STYLE, NUMBERED_STYLE_CANDIDATES, styles),
                          ListItems(block.text)[i], "none")]
      [] block.kind = "table" -> render_table_block(block)
      [] OTHER -> <<>>

add_section_heading(section, styles) ==
    LET candidates == IF section.level \in DOMAIN HEADING_STYLE_MAP
                      THEN HEADING_STYLE_MAP[section.level] ELSE <<"Heading 1">>
    IN <<Paragraph(apply_first_existing_style(DEFAULT_STYLE, candidates, styles),
                   section.title, "none")>>

\* heading, then the content blocks, then the subsections, all appended
RECURSIVE render_section_recursive(_, _)
render_section_recursive(section, styles) ==
    add_section_heading(section, styles)
    \o Flatten([i \in DOMAIN section.content |-> render_content_block(section.content[i], styles)])
    \o Flatten([i \in DOMAIN section.subsections |->
                    render_section_recursive(section.subsections[i], styles)])

update_core_properties(props, metadata) ==
    [props EXCEPT !.title = metadata.title, !.subject = metadata.doc_type,
                  !.category = metadata.status, !.creator = metadata.owner]

\* render_document: reserved sections only update the core properties (and
\* texts of the template's own nodes, which the importer never reads back);
\* every other section is appended after the template's content.
render_document ==
    /\ ipc = "model"
    /\ LET rendered == SelectSeq(model.sections,
                                 LAMBDA sec : sec.key \notin RESERVED_TEMPLATE_SECTIONS)
       IN body' = body \o Flatten([i \in DOMAIN rendered |->
                                      render_section_recursive(rendered[i], catalog)])
    /\ core' = IF \E i \in DOMAIN model.sections : model.sections[i].key = "title_page"
               THEN update_core_properties(core, model.metadata) ELSE core
    /\ generated' = TRUE
    /\ ipc' = "package"
    /\ UNCHANGED <<model, catalog, item, secs, section_stack, doc_dict, verrors>>

(***************************************************************************)
(* word_importer.py                                                        *)
(***************************************************************************)
MAX_HEADING_STYLE == 5

\* the style names containing the token "heading <lvl>" (case-folded)
HeadingStyles(lvl) == {"Heading " \o DigitOf(lvl), "ISMS Heading " \o DigitOf(lvl)}

\* 0 stands for None
get_heading_level(paragraph) ==
    LET lvls == {lvl \in 1 .. MAX_HEADING_STYLE : paragraph.style \in HeadingStyles(lvl)}
    IN IF lvls = {} THEN 0 ELSE SetMin(lvls)

\* style names whose lower-cased form contains "bullet" / "number" / "list paragraph"
BULLET_NAMED == {"List Bullet", "ISMS List Bullet"}
NUMBER_NAMED == {"List Number", "ISMS List Numbered"}
LIST_PARAGRAPH_NAMED == {"List Paragraph"}

detect_list_kind(paragraph) ==
    IF paragraph.style \in BULLET_NAMED THEN "bullet_list"
    ELSE IF paragraph.style \in NUMBER_NAMED THEN "numbered_list"
    ELSE IF paragraph.style \in LIST_PARAGRAPH_NAMED THEN "bullet_list"
    ELSE IF paragraph.numFmt # "none" THEN "bullet_list"
    ELSE "None"

\* <<>> stands for None
paragraph_to_block(paragraph) ==
    IF Strip(paragraph.text) = <<>> THEN <<>>
    ELSE IF detect_list_kind(paragraph) # "None"
    THEN <<[kind |-> detect_list_kind(paragraph), text |-> PyList(<<paragraph.text>>),
            header |-> PyNone, rows |-> PyNone]>>
    ELSE <<[kind |-> "paragraph", text |-> PyStr(paragraph.text),
            header |-> PyNone, rows |-> PyNone]>>

\* the text of a cell: its non-blank paragraph texts, stripped, joined by "\n"
CellText(cell) ==
    LET stripped == [i \in DOMAIN cell |-> Strip(cell[i])]
    IN Join(<<"\n">>, SelectSeq(stripped, LAMBDA t : t # <<>>))

table_to_block(table) ==
    LET rows_data == [r \in DOMAIN table.rows |->
                        [c \in DOMAIN table.rows[r] |-> CellText(table.rows[r][c])]]
        header == IF rows_data # <<>> THEN rows_data[1] ELSE <<>>
        body_rows == IF Len(rows_data) > 1 THEN Tail(rows_data) ELSE <<>>
    IN [kind |-> "table", text |-> PyNone, header |-> PyList(header), rows |-> PyList(body_rows)]

\* re.sub(r"[^a-zA-Z0-9]+", "_", s): every maximal run of other characters
\* becomes one "_"
RECURSIVE SubNonAlnum(_, _)
SubNonAlnum(s, inRun) ==
    IF s = <<>> THEN <<>>
    ELSE IF Head(s) \in Alnum THEN <<Head(s)>> \o SubNonAlnum(Tail(s), FALSE)
    ELSE IF inRun THEN SubNonAlnum(Tail(s), TRUE)
    ELSE <<"_">> \o SubNonAlnum(Tail(s), TRUE)

slugify(text) ==
    LET replaced == SubNonAlnum(Lower(Strip(text)), FALSE)
        base == RStrip(LStrip(replaced, {"_"}), {"_"})
    IN IF base = <<>> THEN "section" ELSE Str(base)

\* pop while the top's level is >= level
RECURSIVE PopTo_Mutant(_, _)
PopTo_Mutant(stack, level) ==
    IF stack # <<>> /\ stack[Len(stack)][1] > level
    THEN PopTo_Mutant(SubSeq(stack, 1, Len(stack) - 1), level)
    ELSE stack

\* no pop at all
PopTo_NoPop(stack, level) == stack

RECURSIVE PopTo(_, _)
PopTo(stack, level) ==
    IF stack # <<>> /\ stack[Len(stack)][1] >= level
    THEN PopTo(SubSeq(stack, 1, Len(stack) - 1), level)
    ELSE stack

\* the nested dict of the section dict at index id
RECURSIVE SectionDict(_, _)
SectionDict(arena, id) ==
    [key |-> arena[id].key, title |-> arena[id].title, level |-> arena[id].level,
     content |-> arena[id].content,
     subsections |-> [i \in DOMAIN arena[id].subsections |->
                         SectionDict(arena, arena[id].subsections[i])]]

\* the title argument: the stem of the imported file; a generated package is
\* imported under the title of its model
import_title == IF generated THEN model.metadata.title ELSE <<"T">>

\* import_body_as_single_section, lines 378-387: the root and the stack
import_begin ==
    /\ ipc = "package"
    /\ secs' = <<[key |-> "record_content", title |-> import_title, level |-> 1,
                  content |-> <<>>, subsections |-> <<>>]>>
    /\ section_stack' = <<<<1, 1>>>>
    /\ item' = 1
    /\ ipc' = "import"
    /\ UNCHANGED <<model, generated, catalog, core, body, doc_dict, verrors>>

heading_title(paragraph, heading_level) ==
    IF Strip(paragraph.text) # <<>> THEN Strip(paragraph.text)
    ELSE <<"H", "e", "a", "d", "i", "n", "g", " ", DigitOf(heading_level)>>

\* one iteration of the loop over the body, on a heading paragraph
import_heading ==
    /\ ipc = "import"
    /\ item <= Len(body)
    /\ body[item].node = "p"
    /\ get_heading_level(body[item]) # 0
    /\ LET heading_level == get_heading_level(body[item])
           heading_text == heading_title(body[item], heading_level)
           new_section == [key |-> slugify(heading_text), title |-> heading_text,
                           level |-> heading_level + 1, content |-> <<>>,
                           subsections |-> <<>>]
           popped == PopTo(section_stack, heading_level + 1)
           parent == popped[Len(popped)][2]
           id == Len(secs) + 1
       IN /\ secs' = Append([secs EXCEPT ![parent].subsections = Append(@, id)], new_section)
          /\ section_stack' = Append(popped, <<heading_level + 1, id>>)
    /\ item' = item + 1
    /\ UNCHANGED <<ipc, model, generated, catalog, core, body, doc_dict, verrors>>

\* the bottom of the stack whatever is open
current_section_Mutant == section_stack[1][2]

\* current_section()
current_section == section_stack[Len(section_stack)][2]

\* one iteration of the loop, on a paragraph that is no heading
import_paragraph ==
    /\ ipc = "import"
    /\ item <= Len(body)
    /\ body[item].node = "p"
    /\ get_heading_level(body[item]) = 0
    /\ secs' = [secs EXCEPT ![current_section].content = @ \o paragraph_to_block(body[item])]
    /\ item' = item + 1
    /\ UNCHANGED <<ipc, model, generated, catalog, core, body, section_stack, doc_dict, verrors>>

\* one iteration of the loop, on a table
import_table ==
    /\ ipc = "import"
    /\ item <= Len(body)
    /\ body[item].node = "t"
    /\ secs' = [secs EXCEPT ![current_section].content = Append(@, table_to_block(body[item]))]
    /\ item' = item + 1
    /\ UNCHANGED <<ipc, model, generated, catalog, core, body, section_stack, doc_dict, verrors>>

MANDATORY_SECTIONS ==
    <<<<"title_page", <<"T", "i", "t", "l", "e", " ", "P", "a", "g", "e">>>>,
      <<"document_control", <<"D", "o", "c", "u", "m", "e", "n", "t", " ", "C", "o", "n", "t", "r", "o", "l">>>>,
      <<"table_of_contents", <<"T", "a", "b", "l", "e", " ", "o", "f", " ", "C", "o", "n", "t", "e", "n", "t", "s">>>>,
      <<"revision_history", <<"R", "e", "v", "i", "s", "i", "o", "n", " ", "H", "i", "s", "t", "o", "r", "y">>>>,
      <<"approval_signatures", <<"A", "p", "p", "r", "o", "v", "a", "l", " ", "S", "i", "g", "n", "a", "t", "u", "r", "e", "s">>>>,
      <<"document_classification", <<"D", "o", "c", "u", "m", "e", "n", "t", " ", "C", "l", "a", "s", "s", "i", "f", "i", "c", "a", "t", "i", "o", "n">>>>,
      <<"purpose", <<"P", "u", "r", "p", "o", "s", "e">>>>,
      <<"scope", <<"S", "c", "o", "p", "e">>>>,
      <<"roles_and_responsibilities", <<"R", "o", "l", "e", "s", " ", "a", "n", "d", " ", "R", "e", "s", "p", "o", "n", "s", "i", "b", "i", "l", "i", "t", "i", "e", "s">>>>,
      <<"related_documents", <<"R", "e", "l", "a", "t", "e", "d", " ", "D", "o", "c", "u", "m", "e", "n", "t", "s">>>>>>

CLASSIFICATION_STUBS ==
    <<<<"distribution_list", <<"D", "i", "s", "t", "r", "i", "b", "u", "t", "i", "o", "n", " ", "L", "i", "s", "t">>>>,
      <<"handling_requirements", <<"H", "a", "n", "d", "l", "i", "n", "g", " ", "R", "e", "q", "u", "i", "r", "e", "m", "e", "n", "t", "s">>>>,
      <<"retention_period", <<"R", "e", "t", "e", "n", "t", "i", "o", "n", " ", "P", "e", "r", "i", "o", "d">>>>>>

Stub_Mutant(entry, level, subsections) ==
    [key |-> entry[1], title |-> entry[2], level |-> level, content |-> <<>>,
     subsections |-> <<>>]

Stub(entry, level, subsections) ==
    [key |-> entry[1], title |-> entry[2], level |-> level, content |-> <<>>,
     subsections |-> subsections]

\* the metadata import_word_to_json fills in from its arguments and constants
ImportMetadata(doc_id, title, doc_type) ==
    [doc_id |-> doc_id, title |-> title, doc_type |-> doc_type, version |-> "0.1",
     status |-> "Draft", owner |-> "TBC", approver |-> "None",
     related_documents |-> <<>>]

\* import_word_to_json, lines 481-557, once the body loop has ended: a stub
\* for every mandatory key other than the main section's, then the main section
import_word_to_json ==
    /\ ipc = "import"
    /\ item > Len(body)
    /\ LET main_section == SectionDict(secs, 1)
           existing_keys == {main_section.key}
           wanted == SelectSeq(MANDATORY_SECTIONS, LAMBDA e : e[1] \notin existing_keys)
           stubs == [i \in DOMAIN wanted |->
                       Stub(wanted[i], 1,
                            IF wanted[i][1] = "document_classification"
                            THEN [j \in DOMAIN CLASSIFICATION_STUBS |->
                                     Stub(CLASSIFICATION_STUBS[j], 2, <<>>)]
                            ELSE <<>>)]
           metadata == IF generated
                       THEN ImportMetadata(model.metadata.doc_id, model.metadata.title,
                                           model.metadata.doc_type)
                       ELSE ImportMetadata(<<"a">>, <<"T">>, "Record")
       IN doc_dict' = [metadata |-> metadata, sections |-> Append(stubs, main_section)]
    /\ ipc' = "imported"
    /\ UNCHANGED <<model, generated, catalog, core, body, item, secs, section_stack, verrors>>

\* cli.py cmd_import_word: DocumentModel.model_validate(doc_dict)
model_validate ==
    /\ ipc = "imported"
    /\ verrors' = DocumentModel(doc_dict)
    /\ ipc' = "validated"
    /\ UNCHANGED <<model, generated, catalog, core, body, item, secs, section_stack, doc_dict>>

ImportNext ==
    \/ render_document /\ UNCHANGED <<modelVars, tablesVars, propsVars, swapVars, callVars, genVars>>
    \/ import_begin /\ UNCHANGED <<modelVars, tablesVars, propsVars, swapVars, callVars, genVars>>
    \/ import_heading /\ UNCHANGED <<modelVars, tablesVars, propsVars, swapVars, callVars, genVars>>
    \/ import_paragraph /\ UNCHANGED <<modelVars, tablesVars, propsVars, swapVars, callVars, genVars>>
    \/ import_table /\ UNCHANGED <<modelVars, tablesVars, propsVars, swapVars, callVars, genVars>>
    \/ import_word_to_json /\ UNCHANGED <<modelVars, tablesVars, propsVars, swapVars, callVars, genVars>>
    \/ model_validate /\ UNCHANGED <<modelVars, tablesVars, propsVars, swapVars, callVars, genVars>>

(***************************************************************************)
(* The packages imported and the models generated                          *)
(***************************************************************************)
MaxBody == 3          \* body items of an imported package

NoDocument == [metadata |-> <<>>, sections |-> <<>>]
NoCore == [title |-> <<>>, subject |-> "", category |-> "", creator |-> ""]

PlainCell == <<<<"a">>>>
PaddedCell == <<<<" ">>, <<"B", " ">>, <<"a">>>>

\* what a body may hold: headings of style level 1..5, plain, blank and list
\* paragraphs, and tables of zero, one and two rows
BodyItems ==
    {Paragraph("Heading 1", <<"A">>, "none"),
     Paragraph("Heading 1", <<"a", "!">>, "none"),
     Paragraph("ISMS Heading 2", <<"B">>, "none"),
     Paragraph("Heading 3", <<"A">>, "none"),
     Paragraph("Heading 4", <<"B">>, "none"),
     Paragraph("Heading 5", <<" ">>, "none"),
     Paragraph("Normal", <<"a">>, "none"),
     Paragraph("Normal", <<" ">>, "none"),
     Paragraph("List Bullet", <<"a">>, "none"),
     Paragraph("List Number", <<"B">>, "none"),
     Paragraph("Normal", <<"a">>, "decimal"),
     Table(<<>>),
     Table(<<<<PlainCell>>>>),
     Table(<<<<PlainCell, PaddedCell>>, <<PlainCell, EmptyCell>>>>)}

ALL_STYLES ==
    {"Normal", "ISMS Body", "List Bullet", "List Number", "List Paragraph",
     "ISMS List Bullet", "ISMS List Numbered"}
    \cup UNION {HeadingStyles(l) : l \in 1 .. MAX_HEADING_STYLE}

BUILTIN_STYLES == {s \in ALL_STYLES : s \notin {"ISMS Body", "ISMS List Bullet",
                                                "ISMS List Numbered"}
                                      /\ \A l \in 1 .. 4 : s # HEADING_STYLE_MAP[l][1]}

Catalogs == {ALL_STYLES, BUILTIN_STYLES, {"Normal"}}

TemplateBodies == {<<>>, <<Paragraph("Normal", <<"a">>, "none")>>}

TableWithHeader == BlockPayload("table", PyNone, PyList(<<CellA>>), PyList(<<<<CellA>>>>))
TableNoHeader == BlockPayload("table", PyNone, PyNone, PyList(<<<<CellA>>, <<CellA>>>>))
BulletList == BlockPayload("bullet_list", PyList(<<CellA, CellA>>), PyNone, PyNone)

\* the metadata of a model that already carries the importer's constants
DraftMetadata == ImportMetadata(<<"a">>, <<"T">>, "Record")

ApprovedMetadata ==
    [doc_id |-> <<"a">>, title |-> <<"T">>, doc_type |-> "Record", version |-> "1.0",
     status |-> "Approved", owner |-> "CTO", approver |-> "CEO",
     related_documents |-> <<>>]

\* the last section of a generated model: a section whose key is the slug of
\* its title, with one of the content lists and optionally one subsection
OwnSections ==
    {<<>>}
    \cup {<<SectionPayload("a", <<"A">>, 1, content, subs)>> :
            content \in {<<>>, <<GoodParagraph>>, <<TableWithHeader>>, <<TableNoHeader>>,
                         <<BulletList>>},
            subs \in {<<>>, <<SectionPayload("b", <<"B">>, 2, <<GoodParagraph>>, <<>>)>>}}

\* the mandatory sections under the titles and in the order the importer
\* gives them
MandatorySections ==
    [i \in DOMAIN MANDATORY_SECTIONS |->
        Stub(MANDATORY_SECTIONS[i], 1,
             IF MANDATORY_SECTIONS[i][1] = "document_classification"
             THEN [j \in DOMAIN CLASSIFICATION_STUBS |-> Stub(CLASSIFICATION_STUBS[j], 2, <<>>)]
             ELSE <<>>)]

\* valid models: every mandatory key and classification sub-key, then the own section
RoundTripModels ==
    {[metadata |-> md, sections |-> MandatorySections \o own] :
        md \in {DraftMetadata, ApprovedMetadata}, own \in OwnSections}

(***************************************************************************)
(* Claims about generating and importing                                   *)
(***************************************************************************)
RECURSIVE KeyTree(_)
KeyTree(sections) ==
    [i \in DOMAIN sections |-> [key |-> sections[i].key,
                                subsections |-> KeyTree(sections[i].subsections)]]

\* header and body rows of every table block, in document order
RECURSIVE TableGrids(_)
TableGrids(sections) ==
    Flatten([i \in DOMAIN sections |->
        LET tables == SelectSeq(sections[i].content, LAMBDA b : b.kind = "table")
        IN [j \in DOMAIN tables |-> [header |-> tables[j].header, rows |-> tables[j].rows]]
           \o TableGrids(sections[i].subsections)])

SameMetadata == doc_dict.metadata = model.metadata
SameSectionKeys == KeyTree(doc_dict.sections) = KeyTree(model.sections)
SameTableGrids == TableGrids(doc_dict.sections) = TableGrids(model.sections)

\* C5: importing the package generated from a valid model yields a model
\* equivalent to the original in metadata, in section keys (same keys at the
\* same positions of the section tree) and in table grids.
C5_RoundTrip ==
    (ipc = "imported" /\ generated /\ DocumentModel(model) = <<>>)
        => (SameMetadata /\ SameSectionKeys /\ SameTableGrids)

\* C6: whatever the body of the imported package, the dictionary the
\* importer returns passes DocumentModel validation.
C6_ImportValidates == ipc = "validated" => verrors = <<>>

(***************************************************************************)
(* dynamic_tables.py: the document body of the v1 pipeline.  A table is a  *)
(* rectangular list of rows of cell texts.                                 *)
(***************************************************************************)
DEFAULT_TABLE_STYLE == "TracWater table"

\* the table styles the document defines
DocStyles == {DEFAULT_TABLE_STYLE}

DocParagraph(text) ==
    [node |-> "p", text |-> text, rows |-> <<>>, style |-> "None", bold |-> FALSE]

DocTable(rows, style) ==
    [node |-> "t", text |-> <<>>, rows |-> rows, style |-> style, bold |-> FALSE]

\* bool(x) of an optional str
Truthy(x) == x.t = "str" /\ x.v[1] # <<>>

\* (x or "")
OrEmpty(x) == IF x.t = "str" THEN x.v[1] ELSE <<>>

\* el.addnext(new): new becomes the sibling right after position i
AddNext(d, i, new) == SubSeq(d, 1, i) \o <<new>> \o SubSeq(d, i + 1, Len(d))

\* document.add_table(rows, cols): a grid of empty cells at the end of the body
add_table(d, rows, cols) ==
    Append(d, DocTable([r \in 1 .. rows |-> [c \in 1 .. cols |-> ""]], "None"))

\* 0 stands for None
find_paragraph(d, text) ==
    LET tgt == Lower(Strip(OrEmpty(text)))
        hits == {i \in DOMAIN d : d[i].node = "p" /\ Lower(Strip(d[i].text)) = tgt}
    IN IF hits = {} THEN 0 ELSE SetMin(hits)

\* the new paragraph is created at the end, its runs made bold when asked,
\* and moved right after position i; a paragraph of empty text has no run
insert_paragraph_after(d, i, text, bold) ==
    AddNext(d, i, [DocParagraph(OrEmpty(text)) EXCEPT !.bold = bold /\ OrEmpty(text) # <<>>])

\* the new table is created at the end and moved right after position i
insert_table_after_paragraph_Mutant(d, i, rows, cols) ==
    add_table(d, Max2(1, rows), Max2(1, cols))

insert_table_after_paragraph(d, i, rows, cols) ==
    LET grown == add_table(d, Max2(1, rows), Max2(1, cols))
    IN AddNext(SubSeq(grown, 1, Len(d)), i, grown[Len(grown)])

get_table_cols(table) == IF table.rows # <<>> THEN Len(table.rows[1]) ELSE 0

find_table_after_heading_Mutant(d, heading_text) ==
    LET target == Lower(Strip(OrEmpty(heading_text)))
        heads == {i \in DOMAIN d : d[i].node = "p" /\ Lower(Strip(d[i].text)) = target}
        tables == {j \in DOMAIN d : d[j].node = "t" /\ \E i \in heads : i < j}
    IN IF tables = {} THEN 0 ELSE SetMax(tables)

\* 0 stands for None
find_table_after_heading(d, heading_text) ==
    LET target == Lower(Strip(OrEmpty(heading_text)))
        heads == {i \in DOMAIN d : d[i].node = "p" /\ Lower(Strip(d[i].text)) = target}
        tables == {j \in DOMAIN d : d[j].node = "t" /\ \E i \in heads : i < j}
    IN IF tables = {} THEN 0 ELSE SetMin(tables)

\* while len(table.rows) < n_rows: table.add_row()
ensure_rows_Mutant(rows, n_rows, cols) ==
    rows \o [r \in 1 .. Max2(1, n_rows + 1 - Len(rows)) |-> [c \in 1 .. cols |-> ""]]

ensure_rows(rows, n_rows, cols) ==
    rows \o [r \in 1 .. Max2(0, n_rows - Len(rows)) |-> [c \in 1 .. cols |-> ""]]

\* lines 166-167: the required number of columns
required_cols(columns, rows) ==
    Max2(SetMax({Len(columns)}
                \cup {IF rows[r].t = "list" THEN Len(rows[r].v) ELSE Len(columns) :
                        r \in DOMAIN rows}),
         1)

header_label_Mutant(columns, c) ==
    IF c <= Len(columns) THEN columns[c] ELSE "Col" \o DigitOf(c - Len(columns))

\* columns[ci] if ci < len(columns) else f"Col{ci+1}", for the 1-based column c
header_label(columns, c) == IF c <= Len(columns) THEN columns[c] ELSE "Col" \o DigitOf(c)

\* (value or ""), as text
CellValue(x) == IF x.t = "str" THEN x.v[1] ELSE ""

\* lines 191-206: the header row and the data rows written into the grid
populate_rows(grid, columns, rows) ==
    [r \in DOMAIN grid |->
        [c \in DOMAIN grid[r] |->
            IF r = 1 THEN header_label(columns, c)
            ELSE IF r - 1 > Len(rows) THEN grid[r][c]
            ELSE LET row == rows[r - 1]
                 IN CASE row.t = "list" ->
                            IF c <= Len(row.v) THEN CellValue(row.v[c]) ELSE ""
                      [] row.t = "dict" ->
                            IF header_label(columns, c) \in DOMAIN row.v
                            THEN CellValue(row.v[header_label(columns, c)]) ELSE ""
                      [] OTHER -> IF c = 1 THEN row.v[1] ELSE grid[r][c]]]

\* what a call leaves behind: the body, the position of the table it resolved
\* (0 for none), and which branches it took
Outcome(d, table, created, replaced, raised) ==
    [doc |-> d, table |-> table, created |-> created, replaced |-> replaced,
     raised |-> raised]

\* lines 126-163: the anchor, the table found, and the table created if missing
resolve_table(d, s) ==
    LET columns == s.columns
        rows == s.rows
        anchor_para == IF Truthy(s.after_heading) THEN find_paragraph(d, s.after_heading) ELSE 0
        found == IF Truthy(s.after_heading)
                 THEN find_table_after_heading(d, s.after_heading) ELSE 0
        cols == Max2(1, IF Len(columns) # 0 THEN Len(columns) ELSE 1)
        paragraphs == {i \in DOMAIN d : d[i].node = "p"}
    IN IF found # 0 \/ ~s.create_if_missing
       THEN [doc |-> d, anchor |-> anchor_para, table |-> found, created |-> FALSE,
             raised |-> FALSE]
       ELSE IF anchor_para # 0
       THEN LET withHeading == IF Truthy(s.heading)
                               THEN insert_paragraph_after(d, anchor_para, s.heading, TRUE) ELSE d
                anchor == IF Truthy(s.heading) THEN anchor_para + 1 ELSE anchor_para
            IN [doc |-> insert_table_after_paragraph(withHeading, anchor, 1 + Len(rows), cols),
                anchor |-> anchor, table |-> anchor + 1, created |-> TRUE, raised |-> FALSE]
       ELSE IF Truthy(s.heading)
       THEN IF paragraphs = {}
            THEN [doc |-> d, anchor |-> 0, table |-> 0, created |-> FALSE, raised |-> TRUE]
            ELSE LET end == SetMax(paragraphs)
                     withHeading == insert_paragraph_after(d, end, s.heading, TRUE)
                 IN [doc |-> insert_table_after_paragraph(withHeading, end + 1,
                                                          1 + Len(rows), cols),
                     anchor |-> 0, table |-> end + 2, created |-> TRUE, raised |-> FALSE]
       ELSE [doc |-> add_table(d, 1 + Len(rows), cols), anchor |-> 0, table |-> Len(d) + 1,
             created |-> TRUE, raised |-> FALSE]

\* populate_dynamic_table(doc, spec)
populate_dynamic_table(d, s) ==
    LET r == resolve_table(d, s)
        n_cols == required_cols(s.columns, s.rows)
        n_rows == 1 + Len(s.rows)
        table_style == IF Truthy(s.table_style) THEN s.table_style.v[1] ELSE DEFAULT_TABLE_STYLE
    IN IF r.raised \/ r.table = 0 THEN Outcome(r.doc, 0, FALSE, FALSE, r.raised)
       ELSE LET replaced == get_table_cols(r.doc[r.table]) # n_cols
                sized == IF replaced
                         THEN IF r.anchor # 0
                              THEN insert_table_after_paragraph(r.doc, r.anchor, n_rows, n_cols)
                              ELSE add_table(r.doc, n_rows, n_cols)
                         ELSE [r.doc EXCEPT ![r.table].rows = ensure_rows(@, n_rows, n_cols)]
                table == IF ~replaced THEN r.table
                         ELSE IF r.anchor # 0 THEN r.anchor + 1 ELSE Len(sized)
                styled == IF table_style \in DocStyles
                          THEN [sized EXCEPT ![table].style = table_style] ELSE sized
            IN Outcome([styled EXCEPT ![table].rows = populate_rows(@, s.columns, s.rows)],
                       table, r.created, replaced, FALSE)

\* the locals of a call once it has returned
Locals(o) ==
    [table |-> o.table, created |-> o.created, replaced |-> o.replaced, raised |-> o.raised]

MaxCalls == 2         \* applications of the spec to the document

\* pipeline.py: one application of the spec to the document
apply_dynamic_table ==
    /\ calls < MaxCalls
    /\ outcome' = Locals(populate_dynamic_table(doc, spec))
    /\ doc' = populate_dynamic_table(doc, spec).doc
    /\ calls' = calls + 1
    /\ UNCHANGED spec

TablesNext == apply_dynamic_table /\ UNCHANGED <<modelVars, importVars, propsVars, swapVars, callVars, genVars>>

(***************************************************************************)
(* The documents and specs tried                                           *)
(***************************************************************************)
MaxDoc == 3           \* body elements of the starting document

DocItems ==
    {DocParagraph(<<"X">>),
     DocParagraph(<<"o">>),
     DocTable(<<>>, "None"),
     DocTable(<<<<"old1", "old2">>>>, "None"),
     DocTable(<<<<"old1">>, <<"old2">>, <<"old3">>>>, DEFAULT_TABLE_STYLE),
     DocTable(<<<<"old1", "old2", "old3">>, <<"old4", "old5", "old6">>>>, "None")}

ListRow(values) == [t |-> "list", v |-> values]
DictRow(values) == [t |-> "dict", v |-> values]
OtherRow(value) == [t |-> "str", v |-> <<value>>]

AfterHeadingsTried == {PyNone, PyStr(<<" ", "x">>), PyStr(<<"N">>)}
HeadingsTried == {PyNone, PyStr(<<"N">>), PyStr(<<"X">>)}
ColumnsTried == {<<>>, <<"H1", "H2">>, <<"H1", "H2", "H3">>}
RowsTried ==
    {<<>>,
     <<ListRow(<<PyStr("a")>>)>>,
     <<ListRow(<<PyStr("a"), PyNone, PyStr("b")>>), DictRow([H1 |-> PyStr("v"), Zz |-> PyStr("w")])>>,
     <<OtherRow("s"), ListRow(<<>>)>>}

SpecsTried ==
    [after_heading : AfterHeadingsTried, create_if_missing : BOOLEAN,
     heading : HeadingsTried, columns : ColumnsTried, rows : RowsTried,
     table_style : {PyNone}]

NoSpec ==
    [after_heading |-> PyNone, create_if_missing |-> FALSE, heading |-> PyNone,
     columns |-> <<>>, rows |-> <<>>, table_style |-> PyNone]

NoOutcome == [table |-> 0, created |-> FALSE, replaced |-> FALSE, raised |-> FALSE]

(***************************************************************************)
(* Claims about populate_dynamic_table                                     *)
(***************************************************************************)
\* the grid of the table a call resolved, <<>> when it resolved none
ResolvedGrid(d, o) == IF o.table = 0 THEN <<>> ELSE d[o.table].rows

\* C7: populate_dynamic_table is idempotent: the table resolved for the spec
\* has the same grid (row and column counts) and the same cell contents after
\* the second application as after the first.
C7_Idempotent ==
    [][(calls = 1 /\ calls' = 2)
        => /\ (outcome'.table = 0) = (outcome.table = 0)
           /\ ResolvedGrid(doc', outcome') = ResolvedGrid(doc, outcome)]_vars

\* the spec was applied twice and resolved a table with data rows
C7_Witness ==
    /\ calls = 2
    /\ outcome.table # 0
    /\ spec.rows # <<>>
    /\ Len(doc[outcome.table].rows) = 1 + Len(spec.rows)

\* C8: when the table found after the anchor heading has a column count
\* different from the required width, a new table of exactly the required
\* width is inserted right after the anchor paragraph and populated, row 0
\* holding the spec's header labels, and every element the document had
\* before, the stale table included, is left as it was.
C8_ReplaceOnWidthMismatch ==
    [][LET found == find_table_after_heading(doc, spec.after_heading)
           anchor == find_paragraph(doc, spec.after_heading)
           width == Max2(1, SetMax({Len(spec.columns)}
                                   \cup {Len(spec.rows[r].v) : r \in
                                           {q \in DOMAIN spec.rows : spec.rows[q].t = "list"}}))
       IN (/\ calls' = calls + 1
           /\ Truthy(spec.after_heading)
           /\ found # 0
           /\ get_table_cols(doc[found]) # width)
          => /\ anchor # 0
             /\ Len(doc') = Len(doc) + 1
             /\ \A i \in 1 .. anchor : doc'[i] = doc[i]
             /\ \A i \in (anchor + 1) .. Len(doc) : doc'[i + 1] = doc[i]
             /\ outcome'.table = anchor + 1
             /\ doc'[anchor + 1].node = "t"
             /\ Len(doc'[anchor + 1].rows) = 1 + Len(spec.rows)
             /\ \A r \in DOMAIN doc'[anchor + 1].rows : Len(doc'[anchor + 1].rows[r]) = width
             /\ \A c \in 1 .. width :
                    doc'[anchor + 1].rows[1][c]
                        = (IF c <= Len(spec.columns) THEN spec.columns[c]
                           ELSE "Col" \o DigitOf(c))]_vars

\* three declared columns met a two-column table, which stays behind the
\* three-column table that replaced it
C8_Witness ==
    /\ calls = 1
    /\ outcome.replaced /\ ~outcome.created
    /\ Len(spec.columns) = 3
    /\ get_table_cols(doc[outcome.table]) = 3
    /\ \E j \in (outcome.table + 1) .. Len(doc) :
          /\ doc[j].node = "t"
          /\ doc[j].rows = <<<<"old1", "old2">>>>

\* C21: when the anchor paragraph exists, no table follows it and creation
\* is allowed, the call leaves, right after the anchor (or right after a new
\* bold heading paragraph that is itself right after the anchor), a table of
\* max(1, number of declared columns) columns and 1 + number of data rows
\* rows.
C21_CreatedRightAfterAnchor ==
    [][LET anchor == find_paragraph(doc, spec.after_heading)
           found == find_table_after_heading(doc, spec.after_heading)
           place == IF Truthy(spec.heading) THEN anchor + 2 ELSE anchor + 1
       IN (/\ calls' = calls + 1
           /\ Truthy(spec.after_heading)
           /\ anchor # 0
           /\ found = 0
           /\ spec.create_if_missing)
          => /\ \A i \in 1 .. anchor : doc'[i] = doc[i]
             /\ Truthy(spec.heading)
                   => /\ doc'[anchor + 1].node = "p"
                      /\ doc'[anchor + 1].text = spec.heading.v[1]
                      /\ doc'[anchor + 1].bold
             /\ Len(doc') >= place
             /\ doc'[place].node = "t"
             /\ Len(doc'[place].rows) = 1 + Len(spec.rows)
             /\ \A r \in DOMAIN doc'[place].rows :
                   Len(doc'[place].rows[r]) = Max2(1, Len(spec.columns))]_vars

TablesIn(d) == Cardinality({i \in DOMAIN d : d[i].node = "t"})
ParagraphsIn(d) == Cardinality({i \in DOMAIN d : d[i].node = "p"})

\* C30: one call adds at most one table to the body: none when a table of the
\* required width already follows the anchor, exactly one when it created or
\* replaced one; a second call with the same spec adds no table and no
\* paragraph.
C30_AtMostOneTablePerCall ==
    [][LET found == IF Truthy(spec.after_heading)
                    THEN find_table_after_heading(doc, spec.after_heading) ELSE 0
           added == TablesIn(doc') - TablesIn(doc)
       IN calls' = calls + 1
          => /\ added <= 1
             /\ (found # 0 /\ get_table_cols(doc[found]) = required_cols(spec.columns, spec.rows))
                   => added = 0
             /\ (outcome'.created \/ outcome'.replaced) => added = 1
             /\ calls = 1 => /\ added = 0
                             /\ ParagraphsIn(doc') = ParagraphsIn(doc)]_vars

\* the width a spec requires: the widest of the declared columns and the
\* list rows, at least 1
WidthOf(s) ==
    Max2(1, SetMax({Len(s.columns)}
                   \cup {Len(s.rows[r].v) : r \in {q \in DOMAIN s.rows : s.rows[q].t = "list"}}))

LabelOf(s, c) == IF c <= Len(s.columns) THEN s.columns[c] ELSE "Col" \o DigitOf(c)

\* C22: in the table a call populated, of the required width W, row 0 holds
\* the declared column names and "Col<n>" beyond them; under it a list row
\* fills its cells by index and the rest with "", a mapping row fills every
\* cell with the value under that column's name or "", and a row of another
\* type puts its text in the first cell.
C22_RowsPopulated ==
    (calls >= 1 /\ outcome.table # 0)
        => LET grid == doc[outcome.table].rows
               W == WidthOf(spec)
           IN /\ Len(grid) >= 1 + Len(spec.rows)
              /\ \A r \in 1 .. (1 + Len(spec.rows)) : Len(grid[r]) = W
              /\ \A c \in 1 .. W : grid[1][c] = LabelOf(spec, c)
              /\ \A i \in DOMAIN spec.rows :
                    LET row == spec.rows[i]
                    IN /\ row.t = "list"
                             => \A c \in 1 .. W :
                                   grid[i + 1][c] =
                                      IF c <= Len(row.v) /\ row.v[c].t = "str"
                                      THEN row.v[c].v[1] ELSE ""
                       /\ row.t = "dict"
                             => \A c \in 1 .. W :
                                   grid[i + 1][c] =
                                      IF LabelOf(spec, c) \in DOMAIN row.v
                                         /\ row.v[LabelOf(spec, c)].t = "str"
                                      THEN row.v[LabelOf(spec, c)].v[1] ELSE ""
                       /\ row.t \notin {"list", "dict"} => grid[i + 1][1] = row.v[1]

\* two declared columns met a list row of three values and a mapping row:
\* the third header cell is "Col3" and the mapping row fills H1 only
C22_Witness ==
    /\ calls = 1
    /\ outcome.table # 0
    /\ spec.columns = <<"H1", "H2">>
    /\ doc[outcome.table].rows =
          <<<<"H1", "H2", "Col3">>, <<"a", "", "b">>, <<"v", "", "">>>>

(***************************************************************************)
(* docx_props.py: the files next to the package, archives as ordered lists *)
(* of named entries, and the custom property stream as the list of the     *)
(* children of its root.                                                   *)
(***************************************************************************)
CORE_PATH == "docProps/core.xml"
CUSTOM_PATH == "docProps/custom.xml"

NoFile == [exists |-> FALSE, entries |-> <<>>]
File(entries) == [exists |-> TRUE, entries |-> entries]

\* the content of an entry: bytes that are no XML, or the serialised form of
\* a list of root children
Raw(bytes) == [xml |-> FALSE, raw |-> bytes, root |-> <<>>]
Xml(root) == [xml |-> TRUE, raw |-> "", root |-> root]

Entry(name, data) == [name |-> name, data |-> data]

Child(tag, text) == [tag |-> tag, text |-> text]

Element(tag, name, pid, fmtid, children) ==
    [tag |-> tag, name |-> name, pid |-> pid, fmtid |-> fmtid, children |-> children]

DigitChars == <<"0", "1", "2", "3", "4", "5", "6", "7", "8", "9">>

\* str(n) for n >= 0
RECURSIVE IntToChars(_)
IntToChars(n) ==
    IF n < 10 THEN <<DigitChars[n + 1]>>
    ELSE Append(IntToChars(n \div 10), DigitChars[(n % 10) + 1])

\* whether int(chars) succeeds, and its value
IsInt(chars) == chars # <<>> /\ \A i \in DOMAIN chars : chars[i] \in Digits

RECURSIVE IntOf(_)
IntOf(chars) ==
    IF chars = <<>> THEN 0
    ELSE 10 * IntOf(SubSeq(chars, 1, Len(chars) - 1))
         + (CHOOSE n \in 0 .. 9 : DigitChars[n + 1] = chars[Len(chars)])

\* ET.tostring: an element whose text is empty is written as an empty
\* element, which reads back with no text
tostring(root) ==
    [i \in DOMAIN root |->
        [root[i] EXCEPT !.children =
            [j \in DOMAIN root[i].children |->
                IF root[i].children[j].text = PyStr("")
                THEN [root[i].children[j] EXCEPT !.text = PyNone]
                ELSE root[i].children[j]]]]

max_pid_Mutant(root) == 1

\* set_doc_properties.max_pid
max_pid(root) ==
    LET pids == {IF root[i].pid.t = "None" THEN 1 ELSE IntOf(root[i].pid.v[1]) :
                    i \in {j \in DOMAIN root : /\ root[j].tag = "property"
                                               /\ (root[j].pid.t = "None"
                                                   \/ IsInt(root[j].pid.v[1]))}}
    IN SetMax({1} \cup pids)

UPSERT_FMTID == "{D5CDD505-2E9C-101B-9397-08002B2CF9AE}"

\* set_doc_properties.upsert
upsert_Mutant(root, name, value) ==
    IF value.t = "None" THEN root
    ELSE Append(root, Element("property", name, PyStr(IntToChars(max_pid(root) + 1)),
                              UPSERT_FMTID, <<Child("lpwstr", PyStr(value.v[1]))>>))

upsert(root, name, value) ==
    IF value.t = "None" THEN root
    ELSE LET hits == {i \in DOMAIN root : root[i].tag = "property" /\ root[i].name = name}
             created == Append(root, Element("property", name,
                                             PyStr(IntToChars(max_pid(root) + 1)),
                                             UPSERT_FMTID, <<>>))
             prop == IF hits = {} THEN Len(created) ELSE SetMin(hits)
         IN [(IF hits = {} THEN created ELSE root)
                EXCEPT ![prop].children = <<Child("lpwstr", PyStr(value.v[1]))>>]

\* lines 219-235: the property names and the metadata keys they are fed from
UPSERTS ==
    <<<<"DocID", "doc_id">>, <<"Version", "version">>, <<"Owner", "owner">>,
      <<"ApprovedBy", "approved_by">>, <<"Status", "status">>,
      <<"DocumentType", "document_type">>, <<"DateCompleted", "date_completed">>,
      <<"Date completed", "date_completed">>, <<"NextReviewDate", "next_review_date">>,
      <<"Confidentiality", "confidentiality">>>>

RECURSIVE UpsertAll(_, _, _)
UpsertAll(root, m, n) ==
    IF n = 0 THEN root
    ELSE upsert(UpsertAll(root, m, n - 1), UPSERTS[n][1], m[UPSERTS[n][2]])

\* line 174: every entry but the custom property stream
other_files_Mutant(entries) ==
    SelectSeq(entries, LAMBDA e : e.name \notin {CUSTOM_PATH, CORE_PATH})

other_files(entries) == SelectSeq(entries, LAMBDA e : e.name # CUSTOM_PATH)

\* what a patch call did: the files it left, whether it raised, the path the
\* rewritten package is at, and the stream it patched
Patched(files, raised, path, target) ==
    [fs |-> files, raised |-> raised, path |-> path, target |-> target]

\* set_doc_properties(docx_path, meta), the final os.replace succeeding or not
set_doc_properties(files, m, replace_ok) ==
    LET entries == files.docx.entries
        customs == {i \in DOMAIN entries : entries[i].name = CUSTOM_PATH}
        custom_bytes == entries[SetMax(customs)].data
        unreadable == ~files.docx.exists \/ (customs # {} /\ ~custom_bytes.xml)
        root == IF customs = {} THEN <<>> ELSE custom_bytes.root
        new_custom == Xml(tostring(UpsertAll(root, m, Len(UPSERTS))))
        written == File(Append(other_files(entries), Entry(CUSTOM_PATH, new_custom)))
    IN IF unreadable THEN Patched(files, TRUE, "none", CUSTOM_PATH)
       ELSE IF replace_ok
       THEN Patched([files EXCEPT !.docx = written, !.tmpdocx = NoFile],
                    FALSE, "docx", CUSTOM_PATH)
       ELSE Patched([files EXCEPT !.tmpdocx = written], TRUE, "none", CUSTOM_PATH)

ATTEMPTS == 8

\* _atomic_replace(src, dst) from <suffix>.tmp onto the package: os.replace
\* raises PermissionError on the first `locked` attempts; os.remove succeeds
\* or not; the fallback is reached by os.replace, by copyfile, or not at all
atomic_replace(files, locked, removable, fallback) ==
    LET src == files.tmp
        removed == IF locked > 0 /\ removable THEN [files EXCEPT !.docx = NoFile] ELSE files
    IN IF locked < ATTEMPTS
       THEN Patched([removed EXCEPT !.docx = src, !.tmp = NoFile], FALSE, "docx", "")
       ELSE CASE fallback = "replace" ->
                    Patched([removed EXCEPT !.fallback = src, !.tmp = NoFile],
                            FALSE, "fallback", "")
              [] fallback = "copyfile" ->
                    Patched([removed EXCEPT !.fallback = src,
                                            !.tmp = IF removable THEN NoFile ELSE src],
                            FALSE, "fallback", "")
              [] OTHER -> Patched(removed, TRUE, "none", "")

\* _write_xml_to_zip(zdst_path, xml_path, tree)
write_xml_to_zip(files, xml_path, tree, locked, removable, fallback) ==
    LET entries == files.docx.entries
        rebuilt == [i \in DOMAIN entries |->
                      IF entries[i].name = xml_path
                      THEN Entry(xml_path, Xml(tostring(tree))) ELSE entries[i]]
        swapped == atomic_replace([files EXCEPT !.tmp = File(rebuilt)],
                                  locked, removable, fallback)
    IN IF ~files.docx.exists THEN Patched(files, TRUE, "none", xml_path)
       ELSE [swapped EXCEPT !.target = xml_path]

Last(name, patched) ==
    [op |-> name, raised |-> patched.raised, path |-> patched.path,
     target |-> patched.target]

MaxRuns == 2          \* runs of set_doc_properties
MaxWrites == 1        \* runs of _write_xml_to_zip

\* pipeline.py line 119: set_doc_properties(output_path, meta)
run_set_doc_properties ==
    /\ runs < MaxRuns
    /\ \E replace_ok \in BOOLEAN :
          LET done == set_doc_properties(fs, meta, replace_ok)
          IN /\ fs' = done.fs
             /\ last' = Last("set_doc_properties", done)
    /\ runs' = runs + 1
    /\ UNCHANGED <<meta, writes>>

LockedTried == {0, 1, ATTEMPTS}

TreesTried ==
    {<<Element("property", "DocID", PyStr(<<"2">>), UPSERT_FMTID,
               <<Child("lpwstr", PyStr(""))>>)>>}

run_write_xml_to_zip ==
    /\ writes < MaxWrites
    /\ \E xml_path \in {CUSTOM_PATH, CORE_PATH, "word/settings.xml"},
          tree \in TreesTried, locked \in LockedTried, removable \in BOOLEAN,
          fallback \in {"replace", "copyfile", "raise"} :
          /\ locked = 0 => ~removable
          /\ locked < ATTEMPTS => fallback = "replace"
          /\ LET done == write_xml_to_zip(fs, xml_path, tree, locked, removable, fallback)
             IN /\ fs' = done.fs
                /\ last' = Last("write_xml_to_zip", done)
    /\ writes' = writes + 1
    /\ UNCHANGED <<meta, runs>>

PropsNext ==
    \/ run_set_doc_properties /\ UNCHANGED <<modelVars, importVars, tablesVars, swapVars, callVars, genVars>>
    \/ run_write_xml_to_zip /\ UNCHANGED <<modelVars, importVars, tablesVars, swapVars, callVars, genVars>>

(***************************************************************************)
(* The packages and metadata tried                                         *)
(***************************************************************************)
TypesEntry == Entry("[Content_Types].xml", Raw("types"))
BodyEntry == Entry("word/document.xml", Raw("body"))
CoreEntry == Entry(CORE_PATH, Raw("core"))

OtherEntriesTried == {<<TypesEntry, BodyEntry, CoreEntry>>, <<BodyEntry>>}

\* custom property streams: an empty root; one property; a foreign element,
\* a property whose pid is no integer and one with no pid and two children;
\* two properties of one name; bytes that do not parse
CustomStreamsTried ==
    {Xml(<<>>),
     Xml(<<Element("property", "DocID", PyStr(<<"2">>), UPSERT_FMTID,
                   <<Child("lpwstr", PyStr("old"))>>)>>),
     Xml(<<Element("other", "", PyNone, "", <<>>),
           Element("property", "Zed", PyStr(<<"x">>), UPSERT_FMTID,
                   <<Child("lpwstr", PyNone)>>),
           Element("property", "Owner", PyNone, UPSERT_FMTID,
                   <<Child("filetime", PyStr("then")), Child("lpwstr", PyStr("me"))>>)>>),
     Xml(<<Element("property", "DocID", PyStr(<<"1", "2">>), UPSERT_FMTID,
                   <<Child("lpwstr", PyStr("D1"))>>),
           Element("property", "DocID", PyStr(<<"3">>), UPSERT_FMTID, <<>>)>>),
     Raw("garbage")}

\* archives of distinctly named entries, the custom stream absent or at any
\* position
ArchivesTried ==
    OtherEntriesTried
    \cup UNION {{AddNext(others, i, Entry(CUSTOM_PATH, custom)) :
                    i \in 0 .. Len(others), custom \in CustomStreamsTried} :
                 others \in OtherEntriesTried}

NoMeta ==
    [doc_id |-> PyNone, version |-> PyNone, owner |-> PyNone, approved_by |-> PyNone,
     status |-> PyNone, document_type |-> PyNone, date_completed |-> PyNone,
     next_review_date |-> PyNone, confidentiality |-> PyNone]

MetasTried ==
    {NoMeta,
     [NoMeta EXCEPT !.doc_id = PyStr("D1")],
     [NoMeta EXCEPT !.date_completed = PyStr("today")],
     [NoMeta EXCEPT !.owner = PyStr("me"), !.status = PyStr("")],
     [doc_id |-> PyStr("D1"), version |-> PyStr(""), owner |-> PyStr("me"),
      approved_by |-> PyStr("you"), status |-> PyStr("Draft"),
      document_type |-> PyStr("Record"), date_completed |-> PyStr("today"),
      next_review_date |-> PyStr("later"), confidentiality |-> PyStr("Internal")]}

NoFiles == [docx |-> NoFile, tmpdocx |-> NoFile, tmp |-> NoFile, fallback |-> NoFile]

NoLast == [op |-> "none", raised |-> FALSE, path |-> "none", target |-> ""]

(***************************************************************************)
(* Claims about the property patcher                                       *)
(***************************************************************************)
Names(entries, target) == {entries[i].name : i \in DOMAIN entries} \ {target}

Untouched(entries, target) == {i \in DOMAIN entries : entries[i].name # target}

\* C9: after set_doc_properties, and after _write_xml_to_zip, every entry
\* other than the target property stream is in the rewritten package under
\* the same name with the same bytes, and no entry other than the target
\* stream is added or removed.
C9_OtherEntriesKept ==
    [][((runs' # runs \/ writes' # writes) /\ ~last'.raised)
        => LET old == fs.docx.entries
               new == fs'[last'.path].entries
               target == last'.target
           IN /\ fs'[last'.path].exists
              /\ Names(new, target) = Names(old, target)
              /\ Cardinality(Untouched(new, target)) = Cardinality(Untouched(old, target))
              /\ \A i \in Untouched(old, target) :
                    \E j \in Untouched(new, target) : new[j] = old[i]]_vars

\* a package of four entries was patched by set_doc_properties
C9_Witness ==
    /\ last.op = "set_doc_properties"
    /\ ~last.raised
    /\ Len(fs.docx.entries) = 4
    /\ fs.docx.entries[4].name = CUSTOM_PATH
    /\ fs.docx.entries[4].data.root # <<>>

\* the children of the root of the package's custom property stream
CustomRoot(file) ==
    LET customs == {i \in DOMAIN file.entries : file.entries[i].name = CUSTOM_PATH}
    IN IF customs = {} THEN <<>> ELSE file.entries[SetMax(customs)].data.root

\* C10: running set_doc_properties twice with the same metadata leaves the
\* property nodes, each node's name, identifier and single value child the
\* same after the second run as after the first.
C10_UpsertIdempotent ==
    [][(/\ runs = 1 /\ runs' = 2
        /\ last.op = "set_doc_properties" /\ ~last.raised /\ ~last'.raised)
        => /\ CustomRoot(fs'.docx) = CustomRoot(fs.docx)
           /\ \A i \in DOMAIN CustomRoot(fs'.docx) :
                 (\E k \in DOMAIN UPSERTS :
                     /\ UPSERTS[k][1] = CustomRoot(fs'.docx)[i].name
                     /\ meta[UPSERTS[k][2]].t = "str"
                     /\ \A j \in 1 .. (i - 1) :
                           CustomRoot(fs'.docx)[j].name # CustomRoot(fs'.docx)[i].name)
                 => Len(CustomRoot(fs'.docx)[i].children) = 1]_vars

\* both runs went through and the second found the properties the first had
\* created after those the stream already held
C10_Witness ==
    /\ runs = 2
    /\ last.op = "set_doc_properties" /\ ~last.raised
    /\ meta.doc_id.t = "str" /\ meta.owner.t = "str"
    /\ Len(CustomRoot(fs.docx)) > 3
    /\ \E i \in DOMAIN CustomRoot(fs.docx) : CustomRoot(fs.docx)[i].name = "Zed"

\* the positions of the property elements among a root's children
Properties(root) == {i \in DOMAIN root : root[i].tag = "property"}

\* the identifiers that read as integers among the properties before position i
IntPidsBefore(root, i) ==
    {IntOf(root[j].pid.v[1]) :
        j \in {k \in Properties(root) : k < i /\ root[k].pid.t = "str"
                                        /\ IsInt(root[k].pid.v[1])}}

PidsDistinct(root) ==
    \A i, j \in Properties(root) : i # j => root[i].pid # root[j].pid

\* C23: a run of upserts leaves every property the stream held with its name
\* and identifier, gives each property it creates the identifier one above
\* the greatest before it, a positive integer, and keeps pairwise distinct
\* identifiers pairwise distinct.
C23_NewPidAboveMax ==
    [][(/\ runs' = runs + 1
        /\ last'.op = "set_doc_properties" /\ ~last'.raised)
        => LET old == CustomRoot(fs.docx)
               new == CustomRoot(fs'.docx)
           IN /\ Len(new) >= Len(old)
              /\ \A i \in DOMAIN old :
                    /\ new[i].tag = old[i].tag
                    /\ new[i].name = old[i].name
                    /\ new[i].pid = old[i].pid
              /\ \A i \in (Len(old) + 1) .. Len(new) :
                    /\ new[i].tag = "property"
                    /\ new[i].pid.t = "str"
                    /\ IsInt(new[i].pid.v[1])
                    /\ IntOf(new[i].pid.v[1]) > 0
                    /\ IntOf(new[i].pid.v[1]) = 1 + SetMax({1} \cup IntPidsBefore(new, i))
              /\ PidsDistinct(old) => PidsDistinct(new)]_vars

\* a stream holding properties of identifiers 12 and 3 got further
\* properties, numbered from 13 on
C23_Witness ==
    /\ runs = 1
    /\ last.op = "set_doc_properties" /\ ~last.raised
    /\ Len(CustomRoot(fs.docx)) >= 4
    /\ CustomRoot(fs.docx)[1].pid = PyStr(<<"1", "2">>)
    /\ CustomRoot(fs.docx)[2].pid = PyStr(<<"3">>)
    /\ CustomRoot(fs.docx)[3].pid = PyStr(<<"1", "3">>)
    /\ CustomRoot(fs.docx)[4].pid = PyStr(<<"1", "4">>)

(***************************************************************************)
(* docx_props.py, one patch run step by step: the package is read and the  *)
(* replacement archive computed, the replacement is written entry by entry *)
(* to the temporary file, and then swapped onto the package's path.        *)
(***************************************************************************)
\* pc: "idle" | "writing" | "swap" | "fallback" | "returned" | "raised"
\* entry: the entry point; tmp: the temporary file's name; original and
\* replacement: the entries read and the entries to write; attempt: failed
\* os.replace calls onto the package so far; path: where the rewritten
\* package was put
Run(pc, entry, tmp, original, replacement, attempt, path) ==
    [pc |-> pc, entry |-> entry, tmp |-> tmp, original |-> original,
     replacement |-> replacement, attempt |-> attempt, path |-> path]

NoRun == Run("idle", "none", "tmp", <<>>, <<>>, 0, "none")

\* set_doc_properties lines 168-241: read, upsert, open the .tmpdocx file
start_set_doc_properties ==
    /\ run.pc = "idle"
    /\ LET done == set_doc_properties(fs, meta, TRUE)
       IN IF done.raised
          THEN /\ run' = Run("raised", "set_doc_properties", "tmpdocx", fs.docx.entries,
                             fs.docx.entries, 0, "none")
               /\ fs' = fs
          ELSE /\ run' = Run("writing", "set_doc_properties", "tmpdocx", fs.docx.entries,
                             done.fs.docx.entries, 0, "none")
               /\ fs' = [fs EXCEPT !.tmpdocx = File(<<>>)]
    /\ UNCHANGED <<meta, runs, writes, last>>

\* _write_xml_to_zip lines 91-95: read every entry, open the .tmp file
start_write_xml_to_zip ==
    /\ run.pc = "idle"
    /\ fs.docx.exists
    /\ \E xml_path \in {CUSTOM_PATH, CORE_PATH}, tree \in TreesTried :
          LET done == write_xml_to_zip(fs, xml_path, tree, 0, FALSE, "replace")
          IN run' = Run("writing", "write_xml_to_zip", "tmp", fs.docx.entries,
                        done.fs.docx.entries, 0, "none")
    /\ fs' = [fs EXCEPT !.tmp = File(<<>>)]
    /\ UNCHANGED <<meta, runs, writes, last>>

\* zout.writestr: the next entry goes into the temporary file; the file is
\* closed after the last one
writestr ==
    /\ run.pc = "writing"
    /\ LET n == Len(fs[run.tmp].entries)
       IN IF n < Len(run.replacement)
          THEN /\ fs' = [fs EXCEPT ![run.tmp].entries = Append(@, run.replacement[n + 1])]
               /\ run' = run
          ELSE /\ fs' = fs
               /\ run' = [run EXCEPT !.pc = "swap"]
    /\ UNCHANGED <<meta, runs, writes, last>>

\* os.replace(tmp, docx_path) succeeds
replace_succeeds ==
    /\ run.pc = "swap"
    /\ fs' = [fs EXCEPT !.docx = fs[run.tmp], ![run.tmp] = NoFile]
    /\ run' = [run EXCEPT !.pc = "returned", !.path = "docx"]
    /\ UNCHANGED <<meta, runs, writes, last>>

\* os.replace raises PermissionError.  set_doc_properties (line 246) lets it
\* propagate; _atomic_replace (lines 63-70) tries to remove the destination,
\* sleeps, and loops until the attempts are used up
replace_raises ==
    /\ run.pc = "swap"
    /\ IF run.entry = "set_doc_properties"
       THEN /\ run' = [run EXCEPT !.pc = "raised", !.attempt = 1]
            /\ fs' = fs
       ELSE /\ run' = [run EXCEPT !.attempt = @ + 1,
                                  !.pc = IF run.attempt + 1 < ATTEMPTS THEN "swap"
                                         ELSE "fallback"]
            /\ \E removed \in BOOLEAN :
                  fs' = IF fs.docx.exists /\ removed THEN [fs EXCEPT !.docx = NoFile] ELSE fs
    /\ UNCHANGED <<meta, runs, writes, last>>

\* _atomic_replace lines 72-77: the side-by-side file takes the temporary file
fallback_replace ==
    /\ run.pc = "fallback"
    /\ fs' = [fs EXCEPT !.fallback = fs[run.tmp], ![run.tmp] = NoFile]
    /\ run' = [run EXCEPT !.pc = "returned", !.path = "fallback"]
    /\ UNCHANGED <<meta, runs, writes, last>>

\* _atomic_replace lines 78-86: that failed; the bytes are copied and the
\* temporary file removed if it can be
fallback_copyfile ==
    /\ run.pc = "fallback"
    /\ \E removed \in BOOLEAN :
          fs' = [fs EXCEPT !.fallback = fs[run.tmp],
                           ![run.tmp] = IF removed THEN NoFile ELSE @]
    /\ run' = [run EXCEPT !.pc = "returned", !.path = "fallback"]
    /\ UNCHANGED <<meta, runs, writes, last>>

\* _atomic_replace line 81: copyfile raises too, having copied some prefix
fallback_raises ==
    /\ run.pc = "fallback"
    /\ \E n \in 0 .. Len(fs[run.tmp].entries) :
          fs' = [fs EXCEPT !.fallback = File(SubSeq(fs[run.tmp].entries, 1, n))]
    /\ run' = [run EXCEPT !.pc = "raised"]
    /\ UNCHANGED <<meta, runs, writes, last>>

SwapNext ==
    \/ start_set_doc_properties /\ UNCHANGED <<modelVars, importVars, tablesVars, callVars, genVars>>
    \/ start_write_xml_to_zip /\ UNCHANGED <<modelVars, importVars, tablesVars, callVars, genVars>>
    \/ writestr /\ UNCHANGED <<modelVars, importVars, tablesVars, callVars, genVars>>
    \/ replace_succeeds /\ UNCHANGED <<modelVars, importVars, tablesVars, callVars, genVars>>
    \/ replace_raises /\ UNCHANGED <<modelVars, importVars, tablesVars, callVars, genVars>>
    \/ fallback_replace /\ UNCHANGED <<modelVars, importVars, tablesVars, callVars, genVars>>
    \/ fallback_copyfile /\ UNCHANGED <<modelVars, importVars, tablesVars, callVars, genVars>>
    \/ fallback_raises /\ UNCHANGED <<modelVars, importVars, tablesVars, callVars, genVars>>

(***************************************************************************)
(* Claims about the swap                                                   *)
(***************************************************************************)
\* C11: whenever the swap onto the package's path fails with a permission
\* error, the run retries it up to the bound, and if every attempt fails the
\* complete rewritten package is stored in the side-by-side file; this holds
\* for set_doc_properties and for _write_xml_to_zip.
C11_SwapFailureRetriedThenFallback ==
    (run.pc \in {"returned", "raised"} /\ run.attempt > 0)
        => \/ fs.docx = File(run.replacement)
           \/ /\ run.attempt = ATTEMPTS
              /\ fs.fallback = File(run.replacement)

\* C12: in every state of a patch run the package's path holds either the
\* complete original archive or the complete replacement archive.
C12_TargetWhole ==
    run.pc # "idle" => fs.docx \in {File(run.original), File(run.replacement)}

(***************************************************************************)
(* Helper functions applied on their own                                   *)
(***************************************************************************)
Call(fn, args, result) == [fn |-> fn, args |-> args, result |-> result]

NoCall == Call("none", <<>>, <<>>)

\* doc_control.py and front_matter.py: the loop over the body elements, an
\* element with a text attribute being a paragraph; 0 stands for None
RECURSIVE find_table_loop(_, _, _, _)
find_table_loop(d, i, target, seen_heading) ==
    IF i > Len(d) THEN 0
    ELSE IF d[i].node = "p"
    THEN find_table_loop(d, i + 1, target, seen_heading \/ Lower(Strip(d[i].text)) = target)
    ELSE IF seen_heading THEN i
    ELSE find_table_loop(d, i + 1, target, seen_heading)

doc_control_find_table_after_heading(d, heading_text) ==
    find_table_loop(d, 1, Lower(Strip(OrEmpty(heading_text))), FALSE)

front_matter_find_table_after_heading(d, heading_text) ==
    find_table_loop(d, 1, Lower(Strip(OrEmpty(heading_text))), FALSE)

(***************************************************************************)
(* word_utils.py                                                           *)
(***************************************************************************)
find_heading_paragraph_Mutant(d, heading_text) == 0

\* 0 stands for None
find_heading_paragraph(d, heading_text) ==
    LET target == Lower(Strip(OrEmpty(heading_text)))
        hits == {i \in DOMAIN d : d[i].node = "p" /\ Lower(Strip(d[i].text)) = target}
    IN IF target = <<>> \/ hits = {} THEN 0 ELSE SetMin(hits)

\* lines 37-43: each candidate is assigned in turn, a KeyError for a name the
\* catalog lacks moving on to the next; the first assignment that succeeds
\* ends the loop
RECURSIVE try_style_candidates(_, _, _)
try_style_candidates(style, style_candidates, styles) ==
    IF style_candidates = <<>> THEN style
    ELSE IF Head(style_candidates) \in styles THEN Head(style_candidates)
    ELSE try_style_candidates(style, Tail(style_candidates), styles)

\* _insert_after(paragraph, text, style_candidates), the paragraph at position i
insert_after_Mutant(d, i, text, style_candidates, styles) ==
    Append(d, [DocParagraph(OrEmpty(text)) EXCEPT
                  !.style = try_style_candidates("None", style_candidates, styles)])

insert_after(d, i, text, style_candidates, styles) ==
    AddNext(d, i, [DocParagraph(OrEmpty(text)) EXCEPT
                      !.style = try_style_candidates("None", style_candidates, styles)])

\* lines 60-71: each non-blank line goes after the previously inserted one
RECURSIVE insert_lines(_, _, _, _)
insert_lines(d, current, lines, styles) ==
    IF lines = <<>> THEN d
    ELSE IF Strip(Head(lines)) = <<>> THEN insert_lines(d, current, Tail(lines), styles)
    ELSE insert_lines(insert_after(d, current, PyStr(Strip(Head(lines))),
                                   <<"ISMS Body", "Normal">>, styles),
                      current + 1, Tail(lines), styles)

\* add_body_under_heading(doc, heading_text, body_text)
add_body_under_heading(d, heading_text, body_text, styles) ==
    LET p == find_heading_paragraph(d, heading_text)
        created == Append(d, [DocParagraph(OrEmpty(heading_text)) EXCEPT
                                 !.style = try_style_candidates(
                                              "None", <<"ISMS Heading 1", "Heading 1">>, styles)])
    IN IF p = 0
       THEN insert_lines(created, Len(created), SplitLines(OrEmpty(body_text)), styles)
       ELSE insert_lines(d, p, SplitLines(OrEmpty(body_text)), styles)

\* lines 124-134 and 154-164: each item that is not blank once stripped goes
\* after the previously inserted one
RECURSIVE insert_items(_, _, _, _, _)
insert_items(d, current, items, style_candidates, styles) ==
    IF items = <<>> THEN d
    ELSE IF Strip(OrEmpty(Head(items))) = <<>>
    THEN insert_items(d, current, Tail(items), style_candidates, styles)
    ELSE insert_items(insert_after(d, current, PyStr(Strip(OrEmpty(Head(items)))),
                                   style_candidates, styles),
                      current + 1, Tail(items), style_candidates, styles)

\* add_numbered_list_under_heading and add_bullet_list_under_heading, which
\* differ in the style candidates of the items
add_list_under_heading(d, heading_text, items, style_candidates, styles) ==
    LET p == find_heading_paragraph(d, heading_text)
        created == Append(d, [DocParagraph(OrEmpty(heading_text)) EXCEPT
                                 !.style = try_style_candidates(
                                              "None", <<"ISMS Heading 1", "Heading 1">>, styles)])
    IN IF p = 0
       THEN insert_items(created, Len(created), items, style_candidates, styles)
       ELSE insert_items(d, p, items, style_candidates, styles)

add_numbered_list_under_heading(d, heading_text, items, styles) ==
    add_list_under_heading(d, heading_text, items,
                           <<"ISMS List Number", "List Number", "ISMS Body", "Normal">>, styles)

add_bullet_list_under_heading(d, heading_text, items, styles) ==
    add_list_under_heading(d, heading_text, items,
                           <<"ISMS List Bullet", "List Bullet", "ISMS Body", "Normal">>, styles)

(***************************************************************************)
(* isms_core_v2/word_utils.py                                              *)
(***************************************************************************)
\* _insert_paragraph_after(paragraph), the paragraph at position i: a
\* paragraph of empty text is inserted before it and the two texts are
\* swapped; the paragraph returned is the inserted one, which is at position
\* i, the paragraph given now being at position i + 1 with empty text
v2_insert_paragraph_after(d, i) ==
    SubSeq(d, 1, i - 1)
        \o <<[DocParagraph(d[i].text) EXCEPT !.style = "None"],
             [d[i] EXCEPT !.text = <<>>]>>
        \o SubSeq(d, i + 1, Len(d))

\* lines 210-221: p is the paragraph at position current, and becomes the
\* paragraph returned by _insert_paragraph_after
RECURSIVE v2_insert_lines(_, _, _, _)
v2_insert_lines(d, current, lines, styles) ==
    IF lines = <<>> THEN d
    ELSE IF Strip(Head(lines)) = <<>> THEN v2_insert_lines(d, current, Tail(lines), styles)
    ELSE LET inserted == v2_insert_paragraph_after(d, current)
             written == [inserted EXCEPT
                            ![current].text = Strip(Head(lines)),
                            ![current].style = try_style_candidates(
                                                  @, <<"ISMS Body", "Normal">>, styles)]
         IN v2_insert_lines(written, current, Tail(lines), styles)

\* add_body_under_heading(doc, heading_text, body) for a str body or None;
\* _find_heading_paragraph is the same as in isms_core/word_utils.py
v2_add_body_under_heading(d, heading_text, body_text, styles) ==
    LET p == find_heading_paragraph(d, heading_text)
        created == Append(d, [DocParagraph(OrEmpty(heading_text)) EXCEPT
                                 !.style = try_style_candidates(
                                              "None", <<"ISMS Heading 1", "Heading 1">>, styles)])
    IN IF p = 0
       THEN v2_insert_lines(created, Len(created), SplitLines(OrEmpty(body_text)), styles)
       ELSE v2_insert_lines(d, p, SplitLines(OrEmpty(body_text)), styles)

MaxFind == 4          \* body elements searched for a table

FindItems ==
    {DocParagraph(<<"X">>), DocParagraph(<<" ", "x", "\n">>), DocParagraph(<<"o">>),
     DocParagraph(<<>>), DocTable(<<<<"t1">>>>, "None"), DocTable(<<<<"t2">>>>, "None")}

FindHeadings == {PyNone, PyStr(<<>>), PyStr(<<"X">>), PyStr(<<"x", " ">>), PyStr(<<"N">>)}

call_find_table_after_heading ==
    /\ call.fn = "none"
    /\ \E d \in SeqsUpTo(FindItems, MaxFind), heading_text \in FindHeadings :
          call' = Call("find_table_after_heading", <<d, heading_text>>,
                       <<find_table_after_heading(d, heading_text),
                         doc_control_find_table_after_heading(d, heading_text),
                         front_matter_find_table_after_heading(d, heading_text)>>)

MaxAnchored == 3      \* body elements of a document inserted into

StyleSetsTried ==
    {{}, {"Normal"}, {"ISMS Body", "Normal", "Heading 1"},
     {"Normal", "Heading 1", "ISMS Heading 1", "List Number"}}

\* an insertion after the paragraph at position i
call_insert_after ==
    /\ call.fn = "none"
    /\ \E d \in SeqsUpTo(FindItems, MaxAnchored), text \in {PyNone, PyStr(<<"n">>)},
          styles \in StyleSetsTried :
          \E i \in {k \in DOMAIN d : d[k].node = "p"}, bold \in BOOLEAN :
             \/ call' = Call("insert_after", <<d, i>>,
                             insert_after(d, i, text, <<"ISMS Body", "Normal">>, styles))
             \/ call' = Call("insert_paragraph_after", <<d, i>>,
                             insert_paragraph_after(d, i, text, bold))
             \/ \E rows \in 0 .. 2 :
                   call' = Call("insert_table_after_paragraph", <<d, i>>,
                                insert_table_after_paragraph(d, i, rows, 2))

BodyTextsTried ==
    {PyNone, PyStr(<<"a">>), PyStr(<<"a", "\n", " ", "b", " ", "\n", "\n", " ", "\n", "c">>)}

call_add_body_under_heading ==
    /\ call.fn = "none"
    /\ \E d \in SeqsUpTo(FindItems, MaxAnchored), heading_text \in FindHeadings,
          body_text \in BodyTextsTried, styles \in StyleSetsTried :
          call' = Call("add_body_under_heading", <<d, heading_text, body_text, styles>>,
                       add_body_under_heading(d, heading_text, body_text, styles))

call_v2_add_body_under_heading ==
    /\ call.fn = "none"
    /\ \E d \in SeqsUpTo(FindItems, MaxAnchored), heading_text \in FindHeadings,
          body_text \in BodyTextsTried, styles \in StyleSetsTried :
          call' = Call("v2_add_body_under_heading", <<d, heading_text, body_text, styles>>,
                       v2_add_body_under_heading(d, heading_text, body_text, styles))

ItemsTried ==
    {<<>>, <<PyStr(<<"a">>)>>, <<PyStr(<<" ", "a">>), PyNone, PyStr(<<" ">>), PyStr(<<"b">>)>>}

call_add_list_under_heading ==
    /\ call.fn = "none"
    /\ \E d \in SeqsUpTo(FindItems, MaxAnchored), heading_text \in FindHeadings,
          items \in ItemsTried, styles \in StyleSetsTried :
          \/ call' = Call("add_numbered_list_under_heading",
                          <<d, heading_text, items, styles>>,
                          add_numbered_list_under_heading(d, heading_text, items, styles))
          \/ call' = Call("add_bullet_list_under_heading",
                          <<d, heading_text, items, styles>>,
                          add_bullet_list_under_heading(d, heading_text, items, styles))

(***************************************************************************)
(* word_importer.py, extract_runs_with_hyperlinks                          *)
(***************************************************************************)
\* An element of a paragraph's XML: a w:fldChar of some type, a w:instrText
\* whose instruction names a field and, for HYPERLINK, a quoted URL, a w:r
\* with the joined text of its w:t children, or a w:hyperlink with an r:id
\* ("None" when absent) and the runs inside it.
Element_(tag, type, field, url, text, rid, kids) ==
    [tag |-> tag, type |-> type, field |-> field, url |-> url, text |-> text,
     rid |-> rid, kids |-> kids]
FldChar(type) == Element_("fldChar", type, "", "", "", "None", <<>>)
InstrText(field, url) == Element_("instrText", "", field, url, "", "None", <<>>)
R(text) == Element_("r", "", "", "", text, "None", <<>>)
Hyperlink(rid, kids) == Element_("hyperlink", "", "", "", "", rid, kids)

\* part.rels: relationship id -> target_ref
RELS == [rid \in {"rId1"} |-> "r"]

\* a run is known by its place: <<i, 0>> for the i-th child of the paragraph,
\* <<i, j>> for the j-th run inside the hyperlink that is the i-th child
EmptyMap == [path \in {} |-> "None"]

\* lines 105-109: the URL of a w:hyperlink, "None" when the id is absent or
\* unknown to the part
hyperlink_url_Mutant(h, rels) == "None"

hyperlink_url(h, rels) ==
    IF h.rid # "None" /\ h.rid \in DOMAIN rels THEN rels[h.rid] ELSE "None"

\* lines 103-113: every run inside a w:hyperlink is mapped to its URL
relationship_links(children, rels) ==
    LET inside == {path \in (DOMAIN children) \X (1 .. 2) :
                      /\ children[path[1]].tag = "hyperlink"
                      /\ path[2] \in DOMAIN children[path[1]].kids}
    IN [path \in inside |-> hyperlink_url(children[path[1]], rels)]

\* re.search(r'HYPERLINK\s+"([^"]+)"', instr)
instr_link(child) ==
    IF child.field = "HYPERLINK" /\ child.url # "" THEN child.url ELSE "None"

\* tag.endswith("r")
EndsWithR(tag) == tag \in {"r", "fldChar", "pPr", "proofErr"}

\* lines 133-158: the direct children of the paragraph, in order
RECURSIVE field_links(_, _, _, _, _)
field_links(children, i, inside_field, current_field_link, hyperlink_map) ==
    IF i > Len(children) THEN hyperlink_map
    ELSE LET child == children[i]
             begin == child.tag = "fldChar" /\ child.type = "begin"
             end == child.tag = "fldChar" /\ child.type = "end"
             inside1 == IF begin THEN TRUE ELSE inside_field
             link1 == IF begin THEN "None" ELSE current_field_link
             link2 == IF child.tag = "instrText" /\ inside1 /\ instr_link(child) # "None"
                      THEN instr_link(child) ELSE link1
             inside3 == IF end THEN FALSE ELSE inside1
             link3 == IF end THEN "None" ELSE link2
             map4 == IF /\ EndsWithR(child.tag) /\ inside3 /\ link3 # "None"
                        /\ <<i, 0>> \notin DOMAIN hyperlink_map
                     THEN hyperlink_map @@ (<<i, 0>> :> link3)
                     ELSE hyperlink_map
         IN field_links(children, i + 1, inside3, link3, map4)

\* the w:r descendants of the paragraph in document order, as paths
RECURSIVE run_paths(_, _)
run_paths(children, i) ==
    IF i > Len(children) THEN <<>>
    ELSE (IF children[i].tag = "r" THEN <<<<i, 0>>>>
          ELSE IF children[i].tag = "hyperlink"
          THEN [j \in DOMAIN children[i].kids |-> <<i, j>>]
          ELSE <<>>) \o run_paths(children, i + 1)

run_at(children, path) ==
    IF path[2] = 0 THEN children[path[1]] ELSE children[path[1]].kids[path[2]]

\* extract_runs_with_hyperlinks(paragraph): the hyperlink map and the run
\* fragments returned; the runs tried carry no w:rPr
extract_runs_with_hyperlinks(children, rels) ==
    LET hyperlink_map == field_links(children, 1, FALSE, "None",
                                     relationship_links(children, rels))
        paths == SelectSeq(run_paths(children, 1),
                           LAMBDA path : run_at(children, path).text # "")
        url(path) == IF path \in DOMAIN hyperlink_map THEN hyperlink_map[path] ELSE "None"
    IN [hyperlink_map |-> hyperlink_map,
        runs_data |-> [k \in DOMAIN paths |->
                         [text |-> run_at(children, paths[k]).text, bold |-> FALSE,
                          italic |-> FALSE, underline |-> url(paths[k]) # "None",
                          hyperlink |-> url(paths[k])]]]

MaxKids == 4          \* children of a paragraph whose runs are extracted

KidsTried ==
    {FldChar("begin"), FldChar("separate"), FldChar("end"),
     InstrText("HYPERLINK", "f"), InstrText("PAGE", ""),
     R("b"), R(""),
     Hyperlink("rId1", <<R("a")>>), Hyperlink("rId9", <<R("a"), R("")>>),
     Hyperlink("None", <<R("a")>>)}

call_extract_runs_with_hyperlinks ==
    /\ call.fn = "none"
    /\ \E children \in SeqsUpTo(KidsTried, MaxKids) :
          call' = Call("extract_runs_with_hyperlinks", <<children>>,
                       extract_runs_with_hyperlinks(children, RELS))

MaxCandidates == 3    \* style names in a candidate list

StyleNamesTried == {"ISMS Body", "Body Text", "Normal"}

\* the renderer's and word_utils' resolution of one candidate list against
\* one catalog, from the style a new paragraph has
call_apply_first_existing_style ==
    /\ call.fn = "none"
    /\ \E candidates \in SeqsUpTo(StyleNamesTried, MaxCandidates),
          styles \in SUBSET StyleNamesTried :
          call' = Call("apply_first_existing_style", <<candidates, styles>>,
                       <<apply_first_existing_style(DEFAULT_STYLE, candidates, styles),
                         try_style_candidates("None", candidates, styles)>>)

ListStylesTried == {"Normal", "List Bullet", "List Number", "List Paragraph"}

\* a non-blank paragraph of any style tried, in no list or in a list of
\* bullet or decimal numbering format
call_detect_list_kind ==
    /\ call.fn = "none"
    /\ \E style \in ListStylesTried, numFmt \in {"none", "bullet", "decimal"} :
          LET paragraph == Paragraph(style, <<"a">>, numFmt)
          IN call' = Call("detect_list_kind", <<paragraph>>, detect_list_kind(paragraph))

MaxRows == 3          \* rows of a table converted to a block

TableRowsTried ==
    {<<EmptyCell>>, <<EmptyCell, EmptyCell>>, <<PlainCell, EmptyCell>>,
     <<EmptyCell, PlainCell>>, <<PaddedCell, PlainCell>>}

call_table_to_block ==
    /\ call.fn = "none"
    /\ \E rows \in SeqsUpTo(TableRowsTried, MaxRows) :
          call' = Call("table_to_block", <<Table(rows)>>, table_to_block(Table(rows)))

CallsNext ==
    \/ call_apply_first_existing_style
          /\ UNCHANGED <<modelVars, importVars, tablesVars, propsVars, swapVars, genVars>>
    \/ call_extract_runs_with_hyperlinks
          /\ UNCHANGED <<modelVars, importVars, tablesVars, propsVars, swapVars, genVars>>
    \/ call_detect_list_kind
          /\ UNCHANGED <<modelVars, importVars, tablesVars, propsVars, swapVars, genVars>>
    \/ call_table_to_block
          /\ UNCHANGED <<modelVars, importVars, tablesVars, propsVars, swapVars, genVars>>
    \/ call_find_table_after_heading
          /\ UNCHANGED <<modelVars, importVars, tablesVars, propsVars, swapVars, genVars>>
    \/ call_insert_after
          /\ UNCHANGED <<modelVars, importVars, tablesVars, propsVars, swapVars, genVars>>
    \/ call_add_body_under_heading
          /\ UNCHANGED <<modelVars, importVars, tablesVars, propsVars, swapVars, genVars>>
    \/ call_add_list_under_heading
          /\ UNCHANGED <<modelVars, importVars, tablesVars, propsVars, swapVars, genVars>>
    \/ call_v2_add_body_under_heading
          /\ UNCHANGED <<modelVars, importVars, tablesVars, propsVars, swapVars, genVars>>

(***************************************************************************)
(* Claims about the helper functions                                       *)
(***************************************************************************)
\* the trimmed, lower-cased text of an optional str, spelled out for the
\* texts in use
Folded(text) ==
    IF text.t = "None" THEN <<>>
    ELSE [i \in DOMAIN Strip(text.v[1]) |->
            IF Strip(text.v[1])[i] = "X" THEN "x" ELSE Strip(text.v[1])[i]]

\* C13: _find_table_after_heading returns the first table after the first
\* paragraph whose trimmed, lower-cased text equals the trimmed, lower-cased
\* heading text, never a table before that paragraph nor a later table, and
\* None when there is no such paragraph or no table after it; the copies in
\* dynamic_tables, doc_control and front_matter agree.
C13_FirstTableAfterFirstHeading ==
    call.fn = "find_table_after_heading"
        => LET d == call.args[1]
               heads == {i \in DOMAIN d :
                            d[i].node = "p" /\ Folded(PyStr(d[i].text)) = Folded(call.args[2])}
               r == call.result[1]
           IN /\ call.result[2] = r /\ call.result[3] = r
              /\ r \in 0 .. Len(d)
              /\ r # 0 => /\ d[r].node = "t"
                          /\ \E h \in heads :
                                /\ \A g \in heads : h <= g
                                /\ h < r
                                /\ \A j \in (h + 1) .. (r - 1) : d[j].node = "p"
              /\ r = 0 => \A h \in heads : \A j \in (h + 1) .. Len(d) : d[j].node = "p"

\* a table before the heading and two after it: the first after is returned
C13_Witness ==
    /\ call.fn = "find_table_after_heading"
    /\ Len(call.args[1]) = 4
    /\ call.args[1][1].node = "t"
    /\ call.args[1][2].node = "p"
    /\ call.args[1][3].node = "t"
    /\ call.args[1][4].node = "t"
    /\ call.result = <<3, 3, 3>>

\* the body r is the body d with one node more, right after position i
InsertedAfter(d, i, r) ==
    /\ Len(r) = Len(d) + 1
    /\ \A k \in 1 .. i : r[k] = d[k]
    /\ \A k \in (i + 1) .. Len(d) : r[k + 1] = d[k]

\* the non-blank lines of a text, trimmed
LinesOf(body_text) ==
    LET lines == SplitLines(OrEmpty(body_text))
        trimmed == [k \in DOMAIN lines |-> Strip(lines[k])]
    IN SelectSeq(trimmed, LAMBDA line : line # <<>>)

\* C14: a paragraph or table inserted after an anchor is the anchor's
\* immediate next sibling and every node there before keeps its place in the
\* order; lines inserted under a heading by chaining follow the heading
\* directly, in input order.
C14_InsertedRightAfterAnchor ==
    /\ call.fn \in {"insert_after", "insert_paragraph_after"}
          => /\ InsertedAfter(call.args[1], call.args[2], call.result)
             /\ call.result[call.args[2] + 1].node = "p"
    /\ call.fn = "insert_table_after_paragraph"
          => /\ InsertedAfter(call.args[1], call.args[2], call.result)
             /\ call.result[call.args[2] + 1].node = "t"
    /\ call.fn = "add_body_under_heading"
          => LET d == call.args[1]
                 r == call.result
                 lines == LinesOf(call.args[3])
                 found == {i \in DOMAIN d :
                              /\ d[i].node = "p"
                              /\ Folded(call.args[2]) # <<>>
                              /\ Folded(PyStr(d[i].text)) = Folded(call.args[2])}
                 heading == IF found = {} THEN Len(d) + 1
                            ELSE CHOOSE h \in found : \A g \in found : h <= g
             IN /\ Len(r) = IF found = {} THEN Len(d) + 1 + Len(lines)
                             ELSE Len(d) + Len(lines)
                /\ \A k \in DOMAIN d : k <= heading => r[k] = d[k]
                /\ \A k \in DOMAIN d : k > heading => r[k + Len(lines)] = d[k]
                /\ \A k \in DOMAIN lines :
                      r[heading + k].node = "p" /\ r[heading + k].text = lines[k]

\* three lines went under a heading that has a table after it
C14_Witness ==
    /\ call.fn = "add_body_under_heading"
    /\ Len(LinesOf(call.args[3])) = 3
    /\ Len(call.args[1]) = 3
    /\ call.args[1][2] = DocParagraph(<<"X">>)
    /\ call.args[1][3].node = "t"
    /\ call.result[6].node = "t"
    /\ call.result[3].text = <<"a">>

\* the texts a call puts under the heading: the trimmed non-blank lines of a
\* body text, or the trimmed non-blank items of a list
ContentOf(c) ==
    IF c.fn = "add_body_under_heading" THEN LinesOf(c.args[3])
    ELSE SelectSeq([k \in DOMAIN c.args[3] |-> Strip(OrEmpty(c.args[3][k]))],
                   LAMBDA text : text # <<>>)

\* C24: content added under a heading text that no paragraph carries gets
\* exactly one new heading paragraph, the last element of the body as it
\* was, in the first heading style the catalog holds, with the content right
\* after it; under a heading text some paragraph carries no heading is
\* created and the content follows the first such paragraph.
C24_HeadingCreatedOnceAtEnd ==
    call.fn \in {"add_body_under_heading", "add_numbered_list_under_heading",
                 "add_bullet_list_under_heading"}
        => LET d == call.args[1]
               r == call.result
               styles == call.args[4]
               content == ContentOf(call)
               matching == {i \in DOMAIN d :
                               /\ d[i].node = "p"
                               /\ Folded(call.args[2]) # <<>>
                               /\ Folded(PyStr(d[i].text)) = Folded(call.args[2])}
           IN IF matching = {}
              THEN /\ Len(r) = Len(d) + 1 + Len(content)
                   /\ SubSeq(r, 1, Len(d)) = d
                   /\ r[Len(d) + 1].node = "p"
                   /\ r[Len(d) + 1].text = OrEmpty(call.args[2])
                   /\ r[Len(d) + 1].style =
                         IF "ISMS Heading 1" \in styles THEN "ISMS Heading 1"
                         ELSE IF "Heading 1" \in styles THEN "Heading 1" ELSE "None"
                   /\ \A k \in DOMAIN content : r[Len(d) + 1 + k].text = content[k]
              ELSE LET h == CHOOSE i \in matching : \A j \in matching : i <= j
                   IN /\ Len(r) = Len(d) + Len(content)
                      /\ SubSeq(r, 1, h) = SubSeq(d, 1, h)
                      /\ SubSeq(r, h + Len(content) + 1, Len(r)) = SubSeq(d, h + 1, Len(d))
                      /\ \A k \in DOMAIN content : r[h + k].text = content[k]

\* two list items went under a heading that no paragraph carried: the
\* heading is new, after the table the body ended with, in the catalog's
\* first heading style
C24_Witness ==
    /\ call.fn = "add_numbered_list_under_heading"
    /\ Len(call.args[1]) = 2
    /\ call.args[1][2].node = "t"
    /\ Len(call.result) = 5
    /\ call.result[3].style = "ISMS Heading 1"
    /\ call.result[3].text # <<>>
    /\ call.result[4].text = <<"a">>
    /\ call.result[5].text = <<"b">>
    /\ call.result[4].style = "List Number"

\* C25: the v2 add_body_under_heading, given a string body of n non-blank
\* lines, leaves the heading paragraph with its text at its position and
\* adds exactly n paragraphs right after it, holding the n lines in input
\* order.
C25_V2LinesRightAfterHeading ==
    call.fn = "v2_add_body_under_heading"
        => LET d == call.args[1]
               r == call.result
               lines == LinesOf(call.args[3])
               matching == {i \in DOMAIN d :
                               /\ d[i].node = "p"
                               /\ Folded(call.args[2]) # <<>>
                               /\ Folded(PyStr(d[i].text)) = Folded(call.args[2])}
               h == IF matching = {} THEN Len(d) + 1
                    ELSE CHOOSE i \in matching : \A j \in matching : i <= j
               text == IF matching = {} THEN OrEmpty(call.args[2]) ELSE d[h].text
           IN /\ Len(r) = h + Len(lines) + (Len(d) + 1 - h) - (IF matching = {} THEN 0 ELSE 1)
              /\ r[h].node = "p"
              /\ r[h].text = text
              /\ \A k \in DOMAIN lines : r[h + k].text = lines[k]

\* C15: the style applied is the first candidate, in list order, that the
\* catalog holds, and with no candidate in the catalog the paragraph keeps
\* the style it had; no case is an error.
C15_FirstExistingCandidate ==
    call.fn = "apply_first_existing_style"
        => LET candidates == call.args[1]
               styles == call.args[2]
           IN \/ /\ \A i \in DOMAIN candidates : candidates[i] \notin styles
                 /\ call.result = <<DEFAULT_STYLE, "None">>
              \/ \E i \in DOMAIN candidates :
                    /\ candidates[i] \in styles
                    /\ \A j \in 1 .. (i - 1) : candidates[j] \notin styles
                    /\ call.result = <<candidates[i], candidates[i]>>

\* the first candidate is missing from the catalog, the second and the third
\* are in it: the second is applied
C15_Witness ==
    /\ call.fn = "apply_first_existing_style"
    /\ call.args = <<<<"ISMS Body", "Body Text", "Normal">>, {"Body Text", "Normal"}>>
    /\ call.result = <<"Body Text", "Body Text">>

\* C17: a paragraph's list kind comes from its numbering format when it has
\* one ("bullet" gives bullet_list, any other format numbered_list) and from
\* its style name only when it has none.
C17_NumberingFormatFirst ==
    (call.fn = "detect_list_kind" /\ call.args[1].numFmt # "none")
        => call.result = IF call.args[1].numFmt = "bullet" THEN "bullet_list"
                         ELSE "numbered_list"

RECURSIVE TrimTrailingEmpty(_)
TrimTrailingEmpty(row) ==
    IF row # <<>> /\ row[Len(row)] = <<>>
    THEN TrimTrailingEmpty(SubSeq(row, 1, Len(row) - 1)) ELSE row

\* C18: the block of a table has the first non-empty row as header and the
\* other non-empty rows as body, each without its trailing empty cells; rows
\* that are fully empty are dropped.
C18_EmptyRowsDroppedCellsTrimmed ==
    call.fn = "table_to_block"
        => LET rows == call.args[1].rows
               texts == [r \in DOMAIN rows |->
                           [c \in DOMAIN rows[r] |-> CellText(rows[r][c])]]
               trimmed == [r \in DOMAIN texts |-> TrimTrailingEmpty(texts[r])]
               kept == SelectSeq(trimmed, LAMBDA row : row # <<>>)
           IN /\ call.result.header.v = IF kept = <<>> THEN <<>> ELSE Head(kept)
              /\ call.result.rows.v = IF kept = <<>> THEN <<>> ELSE Tail(kept)

\* the children from the last field-begin before position i on hold a
\* HYPERLINK instruction and no field-end: a field-code link is open at i
InOpenField(children, i) ==
    \E b \in 1 .. (i - 1) :
        /\ children[b].tag = "fldChar" /\ children[b].type = "begin"
        /\ \A k \in (b + 1) .. (i - 1) : children[k].tag # "fldChar" \/ children[k].type = "separate"
        /\ \E k \in (b + 1) .. (i - 1) : instr_link(children[k]) # "None"

\* C19: a run inside a relationship-linked hyperlink gets that hyperlink's
\* target even when a field-code hyperlink is open around it; a field-code
\* target goes only to runs with no relationship-based mapping.
C19_RelationshipLinkWins ==
    call.fn = "extract_runs_with_hyperlinks"
        => LET children == call.args[1]
               hyperlink_map == call.result.hyperlink_map
           IN /\ \A i \in DOMAIN children :
                    children[i].tag = "hyperlink"
                       => \A j \in DOMAIN children[i].kids :
                             /\ <<i, j>> \in DOMAIN hyperlink_map
                             /\ hyperlink_map[<<i, j>>] =
                                   IF children[i].rid \in DOMAIN RELS
                                   THEN RELS[children[i].rid] ELSE "None"
              /\ \A path \in DOMAIN hyperlink_map :
                    hyperlink_map[path] = "f" => path[2] = 0
              /\ \A k \in DOMAIN call.result.runs_data :
                    call.result.runs_data[k].text = "a"
                       => call.result.runs_data[k].hyperlink # "f"

\* a field-code link is open around a relationship-linked run and around a
\* plain one: the first keeps its relationship target, the second gets the
\* field's
C19_Witness ==
    /\ call.fn = "extract_runs_with_hyperlinks"
    /\ Len(call.args[1]) = 4
    /\ call.args[1][3] = Hyperlink("rId1", <<R("a")>>)
    /\ InOpenField(call.args[1], 3)
    /\ call.result.runs_data =
          <<[text |-> "a", bold |-> FALSE, italic |-> FALSE, underline |-> TRUE,
             hyperlink |-> "r"],
            [text |-> "b", bold |-> FALSE, italic |-> FALSE, underline |-> TRUE,
             hyperlink |-> "f"]>>

\* the section whose subsections hold section id
ParentOf(id) == CHOOSE q \in DOMAIN secs : \E i \in DOMAIN secs[q].subsections :
                                              secs[q].subsections[i] = id

\* C20: sections are numbered in document order, the root first.  Each
\* heading's section is a child of exactly one section, the latest earlier one
\* of strictly smaller level; children are listed in document order; the
\* stack holds, bottom to top, the root and then sections of strictly growing
\* level, the latest section on top.
C20_ParentIsLatestShallower ==
    secs # <<>>
        => /\ \A id \in 2 .. Len(secs) :
                 /\ \E q \in DOMAIN secs : \E i \in DOMAIN secs[q].subsections :
                       secs[q].subsections[i] = id
                 /\ \A q, r \in DOMAIN secs :
                       \A i \in DOMAIN secs[q].subsections, j \in DOMAIN secs[r].subsections :
                          (secs[q].subsections[i] = id /\ secs[r].subsections[j] = id)
                             => (q = r /\ i = j)
                 /\ ParentOf(id) < id
                 /\ secs[ParentOf(id)].level < secs[id].level
                 /\ \A q \in (ParentOf(id) + 1) .. (id - 1) : secs[q].level >= secs[id].level
           /\ \A q \in DOMAIN secs :
                 \A i, j \in DOMAIN secs[q].subsections :
                    i < j => secs[q].subsections[i] < secs[q].subsections[j]
           /\ section_stack # <<>> => 
                 /\ section_stack[1] = <<1, 1>>
                 /\ section_stack[Len(section_stack)][2] = Len(secs)
                 /\ \A k \in DOMAIN section_stack :
                       /\ secs[section_stack[k][2]].level = section_stack[k][1]
                       /\ k > 1 => section_stack[k - 1][1] < section_stack[k][1]

\* three headings, the third shallower than the second: it left the stack's
\* deeper entries behind and became a sibling of the first
C20_Witness ==
    /\ Len(secs) = 4
    /\ secs[2].level = 3 /\ secs[3].level = 4 /\ secs[4].level = 3
    /\ secs[1].subsections = <<2, 4>>
    /\ secs[2].subsections = <<3>>
    /\ section_stack = <<<<1, 1>>, <<3, 4>>>>

\* C26: in the imported document every mandatory key is the key of exactly
\* one top-level section, of level 1; the sections not built from the body
\* are stubs without content; document_classification has the children
\* distribution_list, handling_requirements and retention_period, of level
\* 2; and the tree built from the body is among the top-level sections as it
\* was built.
C26_StubsAddedTreeKept ==
    ipc \in {"imported", "validated"}
        => LET sections == doc_dict.sections
               main == SectionDict(secs, 1)
           IN /\ \A key \in MANDATORY_KEYS :
                    /\ Cardinality({i \in DOMAIN sections : sections[i].key = key}) = 1
                    /\ \A i \in DOMAIN sections :
                          sections[i].key = key /\ key # main.key
                             => /\ sections[i].level = 1
                                /\ sections[i].content = <<>>
              /\ \A i \in DOMAIN sections :
                    sections[i].key = "document_classification"
                       => /\ [j \in DOMAIN sections[i].subsections |->
                                 sections[i].subsections[j].key]
                                = <<"distribution_list", "handling_requirements",
                                    "retention_period">>
                          /\ \A j \in DOMAIN sections[i].subsections :
                                /\ sections[i].subsections[j].level = 2
                                /\ sections[i].subsections[j].content = <<>>
                                /\ sections[i].subsections[j].subsections = <<>>
              /\ Cardinality({i \in DOMAIN sections : sections[i] = main}) = 1
              /\ \A i \in DOMAIN sections :
                    sections[i].key \in MANDATORY_KEYS \/ sections[i] = main

\* a body of a heading, a paragraph and a table was imported: its tree, one
\* subsection holding two blocks, stands after the ten stubs
C26_Witness ==
    /\ ipc = "imported"
    /\ Len(doc_dict.sections) = 11
    /\ doc_dict.sections[11].key = "record_content"
    /\ Len(doc_dict.sections[11].subsections) = 1
    /\ Len(doc_dict.sections[11].subsections[1].content) = 2

\* C27: in the tree the importer builds, the keys of the direct subsections
\* of any section are pairwise distinct.
C27_SiblingKeysDistinct ==
    \A q \in DOMAIN secs :
        \A i, j \in DOMAIN secs[q].subsections :
            i # j => secs[secs[q].subsections[i]].key # secs[secs[q].subsections[j]].key

\* C28: while the importer passes over the body, the stack of open sections
\* is not empty, its bottom entry is the root section at level 1, and its
\* levels grow strictly from bottom to top.
C28_StackRootedAndIncreasing ==
    ipc = "import"
        => /\ section_stack # <<>>
           /\ section_stack[1] = <<1, 1>>
           /\ secs[1].level = 1 /\ secs[1].key = "record_content"
           /\ \A k \in 2 .. Len(section_stack) :
                 section_stack[k - 1][1] < section_stack[k][1]

\* two headings were passed, the second deeper than the first, and a third
\* element is still to come: the stack holds the root and both sections
C28_Witness ==
    /\ ipc = "import"
    /\ item = 3 /\ Len(body) = 3
    /\ Len(section_stack) = 3
    /\ section_stack[2][1] = 2 /\ section_stack[3][1] = 4

\* the body elements passed so far
Passed == IF ipc = "import" THEN 1 .. (item - 1)
          ELSE IF ipc \in {"imported", "validated"} THEN DOMAIN body ELSE {}

IsHeading(element) ==
    element.node = "p" /\ \E lvl \in 1 .. 5 : element.style \in HeadingStyles(lvl)

\* the section a passed element belongs to: the root, numbered 1, or the
\* section of the latest heading before it, sections being numbered in the
\* order of their headings
SectionOf(i) == 1 + Cardinality({h \in Passed : h < i /\ IsHeading(body[h])})

\* the passed elements that yield a block: tables and non-blank paragraphs
\* that are no headings
Yielding(q) ==
    {i \in Passed : /\ SectionOf(i) = q
                    /\ ~IsHeading(body[i])
                    /\ (body[i].node = "t" \/ Strip(body[i].text) # <<>>)}

\* the n-th smallest member of a set of numbers
RECURSIVE Nth(_, _)
Nth(S, n) == IF n = 1 THEN SetMin(S) ELSE Nth(S \ {SetMin(S)}, n - 1)

\* C29: every table and every non-blank paragraph that is no heading yields
\* exactly one block, in the section of the latest heading before it (the
\* root when there is none), the blocks of a section standing in document
\* order; blank paragraphs yield none.
C29_BlocksKeptInPlace ==
    secs # <<>>
        => \A q \in DOMAIN secs :
              /\ Len(secs[q].content) = Cardinality(Yielding(q))
              /\ \A n \in DOMAIN secs[q].content :
                    LET element == body[Nth(Yielding(q), n)]
                        block == secs[q].content[n]
                    IN IF element.node = "t"
                       THEN block = table_to_block(element)
                       ELSE /\ block.kind \in {"paragraph", "bullet_list", "numbered_list"}
                            /\ block.text \in {PyStr(element.text), PyList(<<element.text>>)}

\* a paragraph before any heading, a heading, and a table after it: the
\* root holds the paragraph's block and the heading's section the table's
C29_Witness ==
    /\ ipc = "imported"
    /\ Len(body) = 3
    /\ body[1] = Paragraph("Normal", <<"a">>, "none")
    /\ IsHeading(body[2])
    /\ body[3].node = "t"
    /\ Len(secs) = 2
    /\ Len(secs[1].content) = 1 /\ secs[1].content[1].kind = "paragraph"
    /\ Len(secs[2].content) = 1 /\ secs[2].content[1].kind = "table"

(***************************************************************************)
(* Generation runs, step by step: isms_core/schema.py, isms_core/pipeline.py *)
(* and isms_core_v2/cli.py                                                 *)
(***************************************************************************)
POLICY == <<"P", "o", "l", "i", "c", "y">>
PROCEDURE == <<"P", "r", "o", "c", "e", "d", "u", "r", "e">>
RECORD == <<"R", "e", "c", "o", "r", "d">>

is_nonempty_str(v) == v.t = "str" /\ Strip(v.v[1]) # <<>>

\* schema.py lines 83-95 and pipeline.py lines 31-41: heading -> payload key
SCHEMA_KEYMAP ==
    {<<"Purpose", "purpose">>, <<"Scope", "scope">>,
     <<"Policy Statements", "policy_statements">>,
     <<"Roles and Responsibilities", "roles_and_responsibilities">>,
     <<"Related Documents", "related_documents">>,
     <<"Definitions and Acronyms", "definitions_and_acronyms">>,
     <<"Normative References", "normative_references">>,
     <<"Compliance and Enforcement", "compliance_and_enforcement">>,
     <<"Data Retention", "data_retention">>,
     <<"Procedure Steps", "procedure_steps">>,
     <<"Record Content", "record_content">>}

PIPELINE_KEYMAP ==
    {<<"Purpose", "purpose">>, <<"Scope", "scope">>,
     <<"Roles and Responsibilities", "roles_and_responsibilities">>,
     <<"Related Documents", "related_documents">>,
     <<"Definitions and Acronyms", "definitions_and_acronyms">>,
     <<"Policy Statements", "policy_statements">>,
     <<"Compliance and Enforcement", "compliance_and_enforcement">>,
     <<"Procedure Steps", "procedure_steps">>,
     <<"Record Content", "record_content">>}

\* the headings whose key has a truthy value in the payload's sections
present_headings(keymap, sections) == {hk[1] : hk \in {x \in keymap : x[2] \in sections}}

missing_required(required, present) ==
    LET missing == SelectSeq(required, LAMBDA h : h \notin present)
    IN [i \in DOMAIN missing |-> "Missing required section: " \o missing[i]]

\* validate_input_payload(data, profiles, strict=True): the errors.  A
\* payload field other than a string is given by its shape; sections, when a
\* dict, by the set of its keys that hold a truthy value.
validate_input_payload(data, profiles) ==
    LET metadata == data.metadata
        must == <<"doc_id", "title", "version", "document_type">>
        empty == SelectSeq(must, LAMBDA k : ~is_nonempty_str(metadata[k]))
        doc_type == Strip(OrEmpty(metadata.document_type))
        sections == IF data.sections.t = "dict" THEN data.sections.v ELSE {}
        kv == SelectSeq(<<"document_classification", "handling_requirements",
                          "retention_period">>,
                        LAMBDA k : data[k] \notin {"None", "dict"})
        lists == SelectSeq(<<"distribution_list", "approvals">>,
                           LAMBDA k : data[k] \notin {"None", "list"})
    IN [i \in DOMAIN empty |-> "metadata." \o empty[i] \o ": required non-empty string"]
       \o (IF doc_type \notin {POLICY, PROCEDURE, RECORD}
           THEN <<"metadata.document_type: must be one of 'Policy' | 'Procedure' | 'Record'">>
           ELSE <<>>)
       \o (IF data.sections.t # "dict" THEN <<"sections: must be an object">> ELSE <<>>)
       \o (IF doc_type \in DOMAIN profiles
           THEN missing_required(profiles[doc_type].required_sections,
                                 present_headings(SCHEMA_KEYMAP, sections))
           ELSE <<>>)
       \o [i \in DOMAIN kv |-> kv[i] \o ": must be a simple key/value object"]
       \o [i \in DOMAIN lists |-> lists[i] \o ": must be a list of objects"]
       \o (IF data.dynamic_tables \notin {"None", "list"}
           THEN <<"dynamic_tables: must be a list">> ELSE <<>>)

\* _validate_sections(doc_type, sections, profiles): the messages of
\* severity ERROR
validate_sections(doc_type, sections, profiles) ==
    LET required == IF doc_type \in DOMAIN profiles
                    THEN profiles[doc_type].required_sections ELSE <<>>
    IN missing_required(required, present_headings(PIPELINE_KEYMAP, sections))

Gen(pc, entry, data, profiles, errs, reported, dir, file, code) ==
    [pc |-> pc, entry |-> entry, data |-> data, profiles |-> profiles, errors |-> errs,
     reported |-> reported, dir |-> dir, file |-> file, code |-> code]

NoGen == Gen("idle", "none", <<>>, <<>>, <<>>, <<>>, FALSE, "absent", "none")

DocIdsTried == {PyStr(<<"D">>), PyStr(<<" ">>), PyNone}
DocTypesTried == {PyStr(POLICY), PyStr(POLICY \o <<" ">>), PyStr(<<"M">>), PyNone}
SectionKeysTried == {"purpose", "normative_references", "appendix"}
PayloadSectionsTried ==
    {[t |-> "dict", v |-> keys] : keys \in SUBSET SectionKeysTried}
        \cup {[t |-> "list", v |-> {}]}
RequiredTried ==
    {<<>>, <<"Purpose">>, <<"Normative References">>, <<"Purpose", "Normative References">>}
ProfilesTried ==
    {<<>>} \cup {[t \in {POLICY} |-> [required_sections |-> required]] :
                    required \in RequiredTried}
PayloadsTried ==
    {[metadata |-> [doc_id |-> doc_id, title |-> PyStr(<<"T">>),
                    version |-> PyStr(<<"1">>), document_type |-> document_type],
      sections |-> sections,
      document_classification |-> classification, handling_requirements |-> "None",
      retention_period |-> "None", distribution_list |-> distribution,
      approvals |-> "None", dynamic_tables |-> dynamic] :
        doc_id \in DocIdsTried, document_type \in DocTypesTried,
        sections \in PayloadSectionsTried, classification \in {"None", "dict", "str"},
        distribution \in {"None", "list"}, dynamic \in {"None", "list", "str"}}

\* generate_isms_doc, lines 54-74: the payload is read and validated; any
\* error raises SystemExit(1)
generate_isms_doc ==
    /\ gen.pc = "idle"
    /\ \E data \in PayloadsTried, profiles \in ProfilesTried :
          LET errs == validate_input_payload(data, profiles)
          IN gen' = IF errs # <<>>
                    THEN Gen("exited", "generate_isms_doc", data, profiles, errs, <<>>,
                             FALSE, "absent", "SystemExit(1)")
                    ELSE Gen("mkdir", "generate_isms_doc", data, profiles, errs, <<>>,
                             FALSE, "absent", "none")

\* line 87: output_dir.mkdir(parents=True, exist_ok=True)
pipeline_mkdir ==
    /\ gen.entry = "generate_isms_doc" /\ gen.pc = "mkdir"
    /\ gen' = [gen EXCEPT !.dir = TRUE, !.pc = "write_bytes"]

\* line 92: output_path.write_bytes(template_path.read_bytes())
pipeline_write_bytes ==
    /\ gen.entry = "generate_isms_doc" /\ gen.pc = "write_bytes"
    /\ gen' = [gen EXCEPT !.file = "template", !.pc = "validate_sections"]

\* lines 96-98: the section messages are printed and the run goes on
pipeline_validate_sections ==
    /\ gen.entry = "generate_isms_doc" /\ gen.pc = "validate_sections"
    /\ gen' = [gen EXCEPT
                  !.reported = validate_sections(OrEmpty(gen.data.metadata.document_type),
                                                 gen.data.sections.v, gen.profiles),
                  !.pc = "save"]

\* lines 100-117: the body is rendered and the document saved
pipeline_save ==
    /\ gen.entry = "generate_isms_doc" /\ gen.pc = "save"
    /\ gen' = [gen EXCEPT !.file = "saved", !.pc = "returned", !.code = "output_path"]

\* cmd_generate, lines 70-89: the paths are checked and the JSON validated
cmd_generate ==
    /\ gen.pc = "idle"
    /\ \E input_is_file, template_is_file \in BOOLEAN,
          present \in SUBSET TopKeysTried, subkeys \in {{}, SubKeysTried},
          doc_id \in {<<"a">>, <<" ">>} :
          LET d == [metadata |-> SampleMetadata(doc_id),
                    sections |-> SectionsTried(present, subkeys, "none")]
              errs == DocumentModel(d)
          IN gen' = IF ~input_is_file \/ ~template_is_file
                    THEN Gen("returned", "cmd_generate", d, <<>>, <<>>, <<>>,
                             FALSE, "absent", "1")
                    ELSE IF errs # <<>>
                    THEN Gen("returned", "cmd_generate", d, <<>>, errs, <<>>,
                             FALSE, "absent", "2")
                    ELSE Gen("mkdir", "cmd_generate", d, <<>>, errs, <<>>,
                             FALSE, "absent", "none")

\* line 92: output_path.parent.mkdir(parents=True, exist_ok=True)
cli_mkdir ==
    /\ gen.entry = "cmd_generate" /\ gen.pc = "mkdir"
    /\ gen' = [gen EXCEPT !.dir = TRUE, !.pc = "render_document"]

\* lines 94-99: render_document saves the output or raises
cli_render_document ==
    /\ gen.entry = "cmd_generate" /\ gen.pc = "render_document"
    /\ \/ gen' = [gen EXCEPT !.file = "saved", !.pc = "returned", !.code = "0"]
       \/ gen' = [gen EXCEPT !.pc = "returned", !.code = "3"]

GenNext ==
    \/ generate_isms_doc
          /\ UNCHANGED <<modelVars, importVars, tablesVars, propsVars, swapVars, callVars>>
    \/ pipeline_mkdir
          /\ UNCHANGED <<modelVars, importVars, tablesVars, propsVars, swapVars, callVars>>
    \/ pipeline_write_bytes
          /\ UNCHANGED <<modelVars, importVars, tablesVars, propsVars, swapVars, callVars>>
    \/ pipeline_validate_sections
          /\ UNCHANGED <<modelVars, importVars, tablesVars, propsVars, swapVars, callVars>>
    \/ pipeline_save
          /\ UNCHANGED <<modelVars, importVars, tablesVars, propsVars, swapVars, callVars>>
    \/ cmd_generate
          /\ UNCHANGED <<modelVars, importVars, tablesVars, propsVars, swapVars, callVars>>
    \/ cli_mkdir
          /\ UNCHANGED <<modelVars, importVars, tablesVars, propsVars, swapVars, callVars>>
    \/ cli_render_document
          /\ UNCHANGED <<modelVars, importVars, tablesVars, propsVars, swapVars, callVars>>

\* C16: a generation run whose validation reports an error stops before an
\* output directory or file is created, in the v1 pipeline and in the v2
\* generate command.
C16_FailFast ==
    (gen.errors # <<>> \/ gen.reported # <<>>) => (~gen.dir /\ gen.file = "absent")

(***************************************************************************)
(* Specifications                                                          *)
(***************************************************************************)
ImportIdle ==
    /\ ipc = "off" /\ model = NoDocument /\ generated = FALSE /\ catalog = {}
    /\ core = NoCore /\ body = <<>> /\ item = 0 /\ secs = <<>>
    /\ section_stack = <<>> /\ doc_dict = NoDocument /\ verrors = <<>>

TablesIdle == doc = <<>> /\ spec = NoSpec /\ calls = 0 /\ outcome = NoOutcome

PropsIdle == fs = NoFiles /\ meta = NoMeta /\ runs = 0 /\ writes = 0 /\ last = NoLast

SwapIdle == run = NoRun

CallsIdle == call = NoCall
GenIdle == gen = NoGen

ModelInit == ModelIdle /\ ImportIdle /\ TablesIdle /\ PropsIdle /\ SwapIdle /\ CallsIdle /\ GenIdle

SpecModel == ModelInit /\ [][ModelNext]_vars

\* either a package that exists already, or a valid model and a template to
\* generate the package from
ImportInit ==
    /\ ModelIdle
    /\ TablesIdle
    /\ PropsIdle
    /\ SwapIdle
    /\ CallsIdle
    /\ GenIdle
    /\ item = 0 /\ secs = <<>> /\ section_stack = <<>>
    /\ doc_dict = NoDocument /\ verrors = <<>>
    /\ generated = FALSE
    /\ core = NoCore
    /\ \/ /\ ipc = "package"
          /\ model = NoDocument
          /\ catalog = ALL_STYLES
          /\ body \in SeqsUpTo(BodyItems, MaxBody)
       \/ /\ ipc = "model"
          /\ model \in RoundTripModels
          /\ catalog \in Catalogs
          /\ body \in TemplateBodies

SpecImport == ImportInit /\ [][ImportNext]_vars

\* a starting document and one spec, applied to it repeatedly
TablesInit ==
    /\ ModelIdle
    /\ ImportIdle
    /\ PropsIdle
    /\ SwapIdle
    /\ CallsIdle
    /\ GenIdle
    /\ doc \in SeqsUpTo(DocItems, MaxDoc)
    /\ spec \in SpecsTried
    /\ calls = 0
    /\ outcome = NoOutcome

SpecTables == TablesInit /\ [][TablesNext]_vars

\* a package at its path, nothing next to it, and the metadata to write
PropsInit ==
    /\ ModelIdle
    /\ ImportIdle
    /\ TablesIdle
    /\ SwapIdle
    /\ CallsIdle
    /\ GenIdle
    /\ \E archive \in ArchivesTried : fs = [NoFiles EXCEPT !.docx = File(archive)]
    /\ meta \in MetasTried
    /\ runs = 0 /\ writes = 0
    /\ last = NoLast

SpecProps == PropsInit /\ [][PropsNext]_vars

\* one patch run on a package; a side-by-side file may be left from before
SwapInit ==
    /\ ModelIdle
    /\ ImportIdle
    /\ TablesIdle
    /\ \E archive \in ArchivesTried, stale \in {NoFile, File(<<BodyEntry>>)} :
          fs = [NoFiles EXCEPT !.docx = File(archive), !.fallback = stale]
    /\ meta \in MetasTried
    /\ runs = 0 /\ writes = 0
    /\ last = NoLast
    /\ run = NoRun
    /\ CallsIdle
    /\ GenIdle

SpecSwap == SwapInit /\ [][SwapNext]_vars

\* nothing has been called yet
CallsInit ==
    /\ ModelIdle
    /\ ImportIdle
    /\ TablesIdle
    /\ PropsIdle
    /\ SwapIdle
    /\ call = NoCall
    /\ GenIdle

SpecCalls == CallsInit /\ [][CallsNext]_vars

\* no generation run has started yet
GenInit ==
    /\ ModelIdle /\ ImportIdle /\ TablesIdle /\ PropsIdle /\ SwapIdle /\ CallsIdle
    /\ gen = NoGen

SpecGen == GenInit /\ [][GenNext]_vars

====
